---------------------------- MODULE Spec2Model ----------------------------
(***************************************************************************)
(* Agentainer-lab: the task handoff protocol and the MapReduce aggregation *)
(* pattern of the example workers (mapper.py, reducer.py, doc-extractor),  *)
(* modelled over the shared Redis store they coordinate through.           *)
(*                                                                         *)
(* Every Redis command a worker issues is one atomic step; the steps of    *)
(* concurrently running workers interleave freely.  The orchestrator that  *)
(* creates tasks and starts workers is not part of the repository's        *)
(* sources; its dispatching is modelled from the protocol description.     *)
(***************************************************************************)
EXTENDS Integers, Sequences, FiniteSets, TLC

(***************************************************************************)
(* Bounds of the model.                                                    *)
(***************************************************************************)
MaxUrls == 2        \* longest URL list the LIST step is configured with
MaxRetries == 2     \* task ids the orchestrator reissues in one behaviour
MaxClock == 6       \* seconds of event-loop time the polling loops are followed for
MaxMetrics == 3     \* changes of the workflow the orchestrator makes
MaxOps == 3         \* calls each participant makes through its StateProxy
MaxMethods == 2     \* methods in the body of a workflow class
MaxTicks == 2       \* half-TTL periods the store's clock is followed for

(***************************************************************************)
(* Program constants.                                                      *)
(***************************************************************************)
TTL == 3600         \* ex=3600 of every terminal record, expire(..., 3600)

None == "None"

UrlNames == <<"u1", "u2", "u3", "u4">>
MapIds == <<"m1", "m2", "m3", "m4">>
MapSlots == {MapIds[i] : i \in 1..MaxUrls}
MapperSlots == {"list"} \cup MapSlots       \* mapper.py
ReducerSlots == {"red"}                     \* reducer.py
MRSlots == MapperSlots \cup ReducerSlots
DocSlots == {"ext", "prep"}                 \* doc-extractor/app.py
MultiSlots == {"purl", "proc", "agg"}       \* doc-extractor/app_multi.py
Slots == MRSlots \cup DocSlots \cup MultiSlots

VARIABLES
    now,        \* the store's clock, in seconds
    env,        \* what the workflow's steps are configured with
    kv,         \* string keys of the store: task:{id}, :result, :error, retry
    hash,       \* workflow:{id}:state, the hash of scalar entries
    lists,      \* workflow:{id}:state:list:{name}
    channel,    \* task:{id}:complete, every notification published so far
    run,        \* the worker process of each task id: position and locals
    attempts,   \* how many times each task id has been issued
    appended    \* how many runs of each task id have done their list append

workerVars == <<now, env, kv, hash, lists, channel, run, attempts, appended>>

\* The Python SDK (agentainer_flow), client side.
VARIABLES
    clock,      \* the event loop's time, in seconds
    workflow,   \* the workflow as the orchestrator holds it: status and metrics
    loop        \* the polling coroutine: wait_for_completion or monitor

VARIABLES
    state,      \* the workflow's state as the orchestrator holds it
    proxy,      \* each participant's StateProxy and WorkflowContext
    writers     \* the participants that have written to the state

VARIABLES
    orch,       \* what the orchestrator has received over its HTTP API
    ctx         \* the caller of WorkflowClient and its step Context

VARIABLES
    decl,       \* a workflow class while Python evaluates its definition
    runner      \* a WorkflowTestRunner running the declared class

pollVars == <<clock, workflow, loop>>
stateVars == <<state, proxy, writers>>
clientVars == <<orch, ctx>>
declVars == <<decl, runner>>
sdkVars == <<pollVars, stateVars, clientVars, declVars>>
vars == <<workerVars, sdkVars>>
notPoll == <<workerVars, stateVars, clientVars, declVars>>
notState == <<workerVars, pollVars, clientVars, declVars>>
notClient == <<workerVars, pollVars, stateVars, declVars>>
notDecl == <<workerVars, pollVars, stateVars, clientVars>>

(***************************************************************************)
(* The store.                                                              *)
(***************************************************************************)
TaskIds == Slots \cup {"", "0"}
task_key(id) == <<"task", id, "payload">>
result_key(id) == <<"task", id, "result">>
error_key(id) == <<"task", id, "error">>
\* one counter for the whole workflow, whatever the task
workflow_retry_key(id) == <<"workflow", "0", "retry">>
retry_marker_key(id) == <<"workflow", id, "retry">>
Keys == UNION {{task_key(t), result_key(t), error_key(t), retry_marker_key(t)} : t \in TaskIds}

\* An entry's exp is the time at which the store drops it; 0 is "no expiry".
Absent == [present |-> FALSE, val |-> None, exp |-> 0]
Entry(v, e) == [present |-> TRUE, val |-> v, exp |-> e]

\* redis SET key value EX seconds
Set(store, k, v, ex) == [store EXCEPT ![k] = Entry(v, now + ex)]
\* redis INCR: an absent key counts from 0 and gets no expiry; a present one keeps its own
Incr(store, k) ==
    IF store[k].present THEN [store EXCEPT ![k].val = @ + 1]
    ELSE [store EXCEPT ![k] = Entry(1, 0)]
\* redis EXPIRE: no effect on an absent key
Expire(store, k, ex) ==
    IF store[k].present THEN [store EXCEPT ![k].exp = now + ex] ELSE store

ChunkKeys == <<"chunk_0", "chunk_1", "chunk_2">>
StateKeys ==
    {"urls", "total_items", "current_url", "final_summary"}
    \cup {ChunkKeys[i] : i \in 1..Len(ChunkKeys)}
    \cup {"extraction_result", "chunk_count", "chunks", "tasks", "task_count"}
    \cup {"url_count", "content_url_0", "result_url_0", "aggregated_results"}
ListNames == {"map_results", "map_errors"}

\* A field of the workflow:{id}:state hash.
HAbsent == [present |-> FALSE, val |-> None]
HEntry(v) == [present |-> TRUE, val |-> v]

\* mapper.py get_workflow_state: HGET; a missing field reads as None
get_workflow_state(key) == hash[key]

\* mapper.py / reducer.py set_workflow_state: HSET
set_workflow_state(key, value) == [hash EXCEPT ![key] = HEntry(value)]

\* a writer that replaces the list's value instead of pushing onto it
overwrite_list(key, value) == [lists EXCEPT ![key] = <<value>>]

\* mapper.py append_to_list: one RPUSH
append_to_list(key, value) == [lists EXCEPT ![key] = Append(@, value)]

\* reducer.py get_list_from_state: LRANGE 0 -1
get_list_from_state(key) == lists[key]

(***************************************************************************)
(* Worker processes.  run[s] is the process started for task id s.         *)
(***************************************************************************)
NoItem == [task_id |-> None]
IdleRun ==
    [pc |-> "idle", url |-> None, retry_count |-> 0, response |-> None, item |-> NoItem,
     result |-> NoItem, err |-> None, calls |-> <<>>, wi |-> 0, exit |-> None, i |-> 0,
     redis_client |-> FALSE, all_results |-> <<>>,
     map_results |-> <<>>, map_errors |-> <<>>]

Active(s) == run[s].pc \notin {"idle", "done"}

\* os.environ.get('TASK_ID', default): '' in the doc-extractor programs, '0'
\* in mapper.py and reducer.py; os.environ.get('STEP_TYPE' / 'TASK_TYPE')
TASK_ID(s) ==
    IF env.TASK_ID_set THEN s
    ELSE IF s \in DocSlots \cup MultiSlots THEN "" ELSE "0"
STEP_TYPE(s) == env.STEP_TYPE[s]
TASK_TYPE(s) == env.STEP_TYPE[s]
Program(s) ==
    IF s = "red" THEN "reducer"
    ELSE IF s \in DocSlots THEN "doc-extractor"
    ELSE IF s \in MultiSlots THEN "app_multi"
    ELSE "mapper"

Goto(s, label) == [run EXCEPT ![s].pc = label]

\* raise inside main's try block: control reaches the except clause with str(e)
Raise(s, msg) == [run EXCEPT ![s].pc = "write_error", ![s].err = msg, ![s].wi = 1,
                              ![s].calls = Append(@, "write_error")]
\* a call of write_result(result)
CallWriteResult(s, result) ==
    [run EXCEPT ![s].pc = "write_result", ![s].result = result, ![s].wi = 1,
                ![s].calls = Append(@, "write_result")]
\* sys.exit(code): SystemExit is no Exception, main's except clause lets it pass
Exit(r, s, code) == [r EXCEPT ![s].pc = "done", ![s].exit = code]

(***************************************************************************)
(* write_result / write_error: the statements of each, in program order.   *)
(***************************************************************************)
\* the notification sent ahead of the record it announces
publish_then_set == <<"publish", "set">>

write_result_steps == <<"set", "publish">>
write_error_steps == <<"set", "publish">>

WriteResult(s) ==
    /\ run[s].pc = "write_result"
    /\ LET op == write_result_steps[run[s].wi]
           last == run[s].wi = Len(write_result_steps)
           next == IF last THEN Exit(run, s, "0") ELSE [run EXCEPT ![s].wi = @ + 1]
       IN /\ IF op = "set"
             THEN /\ kv' = Set(kv, result_key(TASK_ID(s)), run[s].result, TTL)
                  /\ UNCHANGED channel
             ELSE /\ channel' = [channel EXCEPT ![TASK_ID(s)] = Append(@, "completed")]
                  /\ UNCHANGED kv
          /\ run' = next
    /\ UNCHANGED <<sdkVars, now, env, hash, lists, attempts, appended>>

WriteError(s) ==
    /\ run[s].pc = "write_error"
    /\ LET op == write_error_steps[run[s].wi]
           last == run[s].wi = Len(write_error_steps)
           next == IF last THEN Exit(run, s, "1") ELSE [run EXCEPT ![s].wi = @ + 1]
       IN /\ IF op = "set"
             THEN /\ kv' = Set(kv, error_key(TASK_ID(s)), run[s].err, TTL)
                  /\ UNCHANGED channel
             ELSE /\ channel' = [channel EXCEPT ![TASK_ID(s)] = Append(@, "error")]
                  /\ UNCHANGED kv
          /\ run' = next
    /\ UNCHANGED <<sdkVars, now, env, hash, lists, attempts, appended>>

(***************************************************************************)
(* mapper.py                                                               *)
(***************************************************************************)
\* main, any STEP_TYPE other than "list" and "map": sys.exit(1)
MapperMain(s) ==
    /\ run[s].pc = "start"
    /\ STEP_TYPE(s) \notin {"list", "map"}
    /\ run' = Exit(run, s, "1")
    /\ UNCHANGED <<sdkVars, now, env, kv, hash, lists, channel, attempts, appended>>

\* list_phase: what json.loads(URLS_JSON) leaves in urls
ParsedUrls(urls_json) ==
    IF urls_json.set /\ urls_json.valid THEN urls_json.val ELSE <<>>

\* list_phase without its "if not urls: raise"
list_phase_unchecked(s) ==
    /\ run[s].pc = "start"
    /\ STEP_TYPE(s) = "list"
    /\ hash' = set_workflow_state("urls", ParsedUrls(env.URLS_JSON))
    /\ run' = Goto(s, "list_total")
    /\ UNCHANGED <<sdkVars, now, env, kv, lists, channel, attempts, appended>>

\* main, STEP_TYPE "list": list_phase up to its first store write
ListPhase(s) ==
    /\ run[s].pc = "start"
    /\ STEP_TYPE(s) = "list"
    /\ LET urls == ParsedUrls(env.URLS_JSON)
       IN IF urls = <<>>
          THEN /\ run' = Raise(s, "No URLs provided")
               /\ UNCHANGED hash
          ELSE /\ hash' = set_workflow_state("urls", urls)
               /\ run' = Goto(s, "list_total")
    /\ UNCHANGED <<sdkVars, now, env, kv, lists, channel, attempts, appended>>

ListTotal(s) ==
    /\ run[s].pc = "list_total"
    /\ LET urls == ParsedUrls(env.URLS_JSON)
       IN /\ hash' = set_workflow_state("total_items", Len(urls))
          /\ run' = CallWriteResult(s,
                [status |-> "success", urls_prepared |-> Len(urls), urls |-> urls])
    /\ UNCHANGED <<sdkVars, now, env, kv, lists, channel, attempts, appended>>

\* main, STEP_TYPE "map": map_phase calls get_task_data, then
\* task_data.get("input", {}).get("current_url")
GetTaskData(s) ==
    /\ run[s].pc = "start"
    /\ STEP_TYPE(s) = "map"
    /\ LET e == kv[task_key(TASK_ID(s))]
           url == IF e.present THEN e.val.input.current_url ELSE None
       IN run' = IF url # None
                 THEN [run EXCEPT ![s].pc = "retry_get", ![s].url = url]
                 ELSE Goto(s, "get_state_url")
    /\ UNCHANGED <<sdkVars, now, env, kv, hash, lists, channel, attempts, appended>>

\* the fallback: get_workflow_state("current_url"); no URL raises ValueError
GetStateUrl(s) ==
    /\ run[s].pc = "get_state_url"
    /\ LET e == get_workflow_state("current_url")
       IN run' = IF e.present
                 THEN [run EXCEPT ![s].pc = "retry_get", ![s].url = e.val]
                 ELSE Raise(s, "No URL provided for map task")
    /\ UNCHANGED <<sdkVars, now, env, kv, hash, lists, channel, attempts, appended>>

\* retry_count = int(redis_client.get(retry_marker_key) or 0)
RetryGet(s) ==
    /\ run[s].pc = "retry_get"
    /\ LET e == kv[retry_marker_key(TASK_ID(s))]
       IN run' = [run EXCEPT ![s].pc = "retry_incr",
                             ![s].retry_count = IF e.present THEN e.val ELSE 0]
    /\ UNCHANGED <<sdkVars, now, env, kv, hash, lists, channel, attempts, appended>>

RetryIncr(s) ==
    /\ run[s].pc = "retry_incr"
    /\ kv' = Incr(kv, retry_marker_key(TASK_ID(s)))
    /\ run' = Goto(s, "retry_expire")
    /\ UNCHANGED <<sdkVars, now, env, hash, lists, channel, attempts, appended>>

RetryExpire(s) ==
    /\ run[s].pc = "retry_expire"
    /\ kv' = Expire(kv, retry_marker_key(TASK_ID(s)), TTL)
    /\ run' = Goto(s, "fetch")
    /\ UNCHANGED <<sdkVars, now, env, hash, lists, channel, attempts, appended>>

\* What requests.get can answer: a status code, no answer at all, or a
\* page whose processing raises.
Responses == {"200", "429", "500", "timeout", "garbled"}

PageIndex(url) == CHOOSE i \in 1..Len(UrlNames) : UrlNames[i] = url
\* The page behind a URL: its words, distinct words, bytes, and the
\* milliseconds the server takes to answer.
Page(url) ==
    LET i == PageIndex(url)
    IN [word_count |-> 10 * i + 2, unique_words |-> 4 * i + 1,
        content_length |-> 100 * i, response_time |-> 30 * i + 5]

\* The try block of map_phase from requests.get on: which exception, if any,
\* leaves it: "ok", or the except clause that catches it.
FetchOutcome(resp, retry_count) ==
    CASE resp = "timeout" -> "request_error"      \* requests.Timeout
      [] resp = "429" -> "request_error"          \* HTTPError("Rate limited ...")
      [] resp = "500" ->
            IF retry_count = 1
            THEN "request_error"                  \* HTTPError("Server error 500")
            \* "simulating recovery": raise_for_status() raises HTTPError all the same
            ELSE "request_error"
      [] resp = "garbled" -> "processing_error"   \* any other Exception
      [] OTHER -> "ok"

\* the record map_phase builds: result, or error_result of an except clause
MapRecord(s, url, outcome) ==
    IF outcome = "ok"
    THEN [task_id |-> TASK_ID(s), url |-> url,
          word_count |-> Page(url).word_count,
          unique_words |-> Page(url).unique_words,
          content_length |-> Page(url).content_length,
          response_time |-> Page(url).response_time,
          status_code |-> 200]
    \* "error" is str(e); the exception's text is not told apart
    ELSE [task_id |-> TASK_ID(s), url |-> url, error |-> "str(e)",
          error_type |-> outcome]

\* every record filed as a success
NeverErrorRecord(rec) == FALSE

IsErrorRecord(rec) == "error_type" \in DOMAIN rec

Fetch(s) ==
    /\ run[s].pc = "fetch"
    /\ \E resp \in Responses :
          run' = [run EXCEPT ![s].pc = "append", ![s].response = resp,
                     ![s].item = MapRecord(s, run[s].url, FetchOutcome(resp, run[s].retry_count))]
    /\ UNCHANGED <<sdkVars, now, env, kv, hash, lists, channel, attempts, appended>>

\* a map_phase that returns to main without filing the record it built
map_phase_unrecorded(s) ==
    /\ run[s].pc = "append"
    /\ run' = CallWriteResult(s,
                [status |-> "success", task_id |-> TASK_ID(s), url_processed |-> TRUE])
    /\ UNCHANGED <<sdkVars, now, env, kv, hash, lists, channel, attempts, appended>>

\* append_to_list("map_results", result) / append_to_list("map_errors", error_result);
\* map_phase returns and main calls write_result
MapAppend(s) ==
    /\ run[s].pc = "append"
    /\ lists' = IF IsErrorRecord(run[s].item)
                THEN append_to_list("map_errors", run[s].item)
                ELSE append_to_list("map_results", run[s].item)
    /\ appended' = [appended EXCEPT ![s] = @ + 1]
    /\ run' = CallWriteResult(s,
                [status |-> "success", task_id |-> TASK_ID(s), url_processed |-> TRUE])
    /\ UNCHANGED <<sdkVars, now, env, kv, hash, channel, attempts>>

(***************************************************************************)
(* reducer.py                                                              *)
(***************************************************************************)
RECURSIVE GCD(_, _)
GCD(a, b) == IF b = 0 THEN a ELSE GCD(b, a % b)

\* integer division in place of true division
FloorDiv(n, d) == [num |-> n \div d, den |-> 1]

\* Python's float results, kept exact: the quotient n / d in lowest terms.
Div(n, d) ==
    LET g == GCD(n, d)
    IN IF n = 0 THEN [num |-> 0, den |-> 1] ELSE [num |-> n \div g, den |-> d \div g]
Zero == [num |-> 0, den |-> 1]

RECURSIVE Sum(_)
Sum(xs) == IF xs = <<>> THEN 0 ELSE Head(xs) + Sum(Tail(xs))

RECURSIVE Min(_)
Min(xs) == IF Len(xs) = 1 THEN xs[1]
           ELSE LET m == Min(Tail(xs)) IN IF xs[1] <= m THEN xs[1] ELSE m
RECURSIVE Max(_)
Max(xs) == IF Len(xs) = 1 THEN xs[1]
           ELSE LET m == Max(Tail(xs)) IN IF xs[1] >= m THEN xs[1] ELSE m

\* r.get(field, 0) over the records of a list
Column(records, field) ==
    [i \in 1..Len(records) |->
        IF field \in DOMAIN records[i] THEN records[i][field] ELSE 0]

\* Counter(e.get('error_type', 'unknown') for e in map_errors), as a dict
ErrorTypes(map_errors) ==
    LET ty(e) == IF "error_type" \in DOMAIN e THEN e.error_type ELSE "unknown"
        seen == {ty(map_errors[i]) : i \in 1..Len(map_errors)}
    IN [t \in seen |-> Cardinality({i \in 1..Len(map_errors) : ty(map_errors[i]) = t})]

\* the summary reduce_phase stores when both lists are empty
EmptySummary ==
    [error |-> "No data to process", total_urls_processed |-> 0, total_urls_failed |-> 0]

\* the summary reduce_phase stores otherwise
FullSummary(map_results, map_errors) ==
    LET n == Len(map_results)
        total_words == Sum(Column(map_results, "word_count"))
        total_unique_words == Sum(Column(map_results, "unique_words"))
        total_bytes == Sum(Column(map_results, "content_length"))
        total_response_time == Sum(Column(map_results, "response_time"))
        response_times == Column(map_results, "response_time")
    IN [total_urls_processed |-> n,
        total_urls_failed |-> Len(map_errors),
        success_rate |-> IF n > 0 \/ Len(map_errors) > 0
                         THEN Div(n * 100, n + Len(map_errors)) ELSE Zero,
        total_words |-> total_words,
        total_unique_words |-> total_unique_words,
        total_bytes |-> total_bytes,
        average_words_per_page |-> IF n > 0 THEN Div(total_words, n) ELSE Zero,
        average_unique_words_per_page |-> IF n > 0 THEN Div(total_unique_words, n) ELSE Zero,
        average_bytes_per_page |-> IF n > 0 THEN Div(total_bytes, n) ELSE Zero,
        performance |->
            [total_response_time |-> total_response_time,
             min_response_time |-> IF n > 0 THEN Min(response_times) ELSE 0,
             max_response_time |-> IF n > 0 THEN Max(response_times) ELSE 0,
             avg_response_time |-> IF n > 0 THEN Div(total_response_time, n) ELSE Zero],
        error_summary |-> ErrorTypes(map_errors),
        successful_urls |-> [i \in 1..n |-> map_results[i].url],
        failed_urls |-> [i \in 1..Len(map_errors) |->
                            [url |-> map_errors[i].url, error |-> map_errors[i].error]]]

\* reduce_phase without its early return for two empty lists
summary_without_early_return(map_results, map_errors) ==
    FullSummary(map_results, map_errors)

\* reduce_phase: the final_summary it computes from the two lists it read
Summary(map_results, map_errors) ==
    IF map_results = <<>> /\ map_errors = <<>>
    THEN EmptySummary
    ELSE FullSummary(map_results, map_errors)

\* main calls reduce_phase, which first reads map_results
ReduceReadResults(s) ==
    /\ Program(s) = "reducer"
    /\ run[s].pc = "start"
    /\ run' = [run EXCEPT ![s].pc = "read_errors",
                          ![s].map_results = get_list_from_state("map_results")]
    /\ UNCHANGED <<sdkVars, now, env, kv, hash, lists, channel, attempts, appended>>

ReduceReadErrors(s) ==
    /\ run[s].pc = "read_errors"
    /\ run' = [run EXCEPT ![s].pc = "reduce",
                          ![s].map_errors = get_list_from_state("map_errors")]
    /\ UNCHANGED <<sdkVars, now, env, kv, hash, lists, channel, attempts, appended>>

\* a reduce_phase that raises on two empty lists instead of returning
reduce_phase_raising(s) ==
    /\ run[s].pc = "reduce"
    /\ IF run[s].map_results = <<>> /\ run[s].map_errors = <<>>
       THEN /\ run' = Raise(s, "No data to process")
            /\ UNCHANGED hash
       ELSE /\ hash' = set_workflow_state("final_summary",
                           Summary(run[s].map_results, run[s].map_errors))
            /\ run' = CallWriteResult(s, [status |-> "success"])
    /\ UNCHANGED <<sdkVars, now, env, kv, lists, channel, attempts, appended>>

\* set_workflow_state("final_summary", summary); reduce_phase returns on either
\* branch and main calls write_result
ReducePhase(s) ==
    /\ run[s].pc = "reduce"
    /\ hash' = set_workflow_state("final_summary",
                    Summary(run[s].map_results, run[s].map_errors))
    /\ run' = CallWriteResult(s,
                [status |-> "success", task_id |-> TASK_ID(s), phase |-> "reduce",
                 completed |-> TRUE])
    /\ UNCHANGED <<sdkVars, now, env, kv, lists, channel, attempts, appended>>

(***************************************************************************)
(* workflow-demo/doc-extractor/app.py                                      *)
(***************************************************************************)
\* raise inside main's try block: the except clause first reconnects
DocRaise(s, msg) == [run EXCEPT ![s].pc = "except", ![s].err = msg]

\* connect_redis(): returns a client, or raises once its attempts are used up
DocConnect(s) ==
    /\ Program(s) = "doc-extractor"
    /\ run[s].pc = "start"
    /\ \E connected \in BOOLEAN :
          run' = IF connected THEN Goto(s, "get_task")
                 ELSE DocRaise(s, "Failed to connect to Redis")
    /\ UNCHANGED <<sdkVars, now, env, kv, hash, lists, channel, attempts, appended>>

\* get_task, then main's dispatch on TASK_TYPE
get_task(s) ==
    IF TASK_ID(s) = "" THEN DocRaise(s, "No TASK_ID provided in environment")
    ELSE IF ~kv[task_key(TASK_ID(s))].present THEN DocRaise(s, "Task not found in Redis")
    ELSE IF TASK_TYPE(s) = "extract" THEN [run EXCEPT ![s].pc = "set_chunk", ![s].i = 0]
    ELSE IF TASK_TYPE(s) = "prepare" THEN Goto(s, "prepare_tasks")
    ELSE DocRaise(s, "Unknown task type")

DocGetTask(s) ==
    /\ Program(s) = "doc-extractor"
    /\ run[s].pc = "get_task"
    /\ run' = get_task(s)
    /\ UNCHANGED <<sdkVars, now, env, kv, hash, lists, channel, attempts, appended>>

\* extract_document: the sample document has three sections
ExtractionResult ==
    [document_id |-> "sample_doc", total_chunks |-> Len(ChunkKeys), status |-> "success"]

\* for i, chunk in enumerate(chunks): set_workflow_state(f"chunk_{i}", ...)
DocSetChunk(s) ==
    /\ run[s].pc = "set_chunk"
    /\ hash' = set_workflow_state(ChunkKeys[run[s].i + 1], "content")
    /\ run' = IF run[s].i + 1 < Len(ChunkKeys)
              THEN [run EXCEPT ![s].i = @ + 1]
              ELSE Goto(s, "set_extraction_result")
    /\ UNCHANGED <<sdkVars, now, env, kv, lists, channel, attempts, appended>>

DocSetExtractionResult(s) ==
    /\ run[s].pc = "set_extraction_result"
    /\ hash' = set_workflow_state("extraction_result", ExtractionResult)
    /\ run' = Goto(s, "set_chunk_count")
    /\ UNCHANGED <<sdkVars, now, env, kv, lists, channel, attempts, appended>>

DocSetChunkCount(s) ==
    /\ run[s].pc = "set_chunk_count"
    /\ hash' = set_workflow_state("chunk_count", Len(ChunkKeys))
    /\ run' = Goto(s, "set_chunks")
    /\ UNCHANGED <<sdkVars, now, env, kv, lists, channel, attempts, appended>>

DocSetChunks(s) ==
    /\ run[s].pc = "set_chunks"
    /\ hash' = set_workflow_state("chunks", ChunkKeys)
    /\ run' = CallWriteResult(s, ExtractionResult)
    /\ UNCHANGED <<sdkVars, now, env, kv, lists, channel, attempts, appended>>

\* prepare_tasks: chunk_count from the state, else from extraction_result,
\* else the demo's default of as many chunks as the sample document has
DocPrepareTasks(s) ==
    /\ run[s].pc = "prepare_tasks"
    /\ run' = IF hash["chunk_count"].present
              THEN [run EXCEPT ![s].pc = "set_tasks", ![s].i = hash["chunk_count"].val]
              ELSE Goto(s, "prepare_fallback")
    /\ UNCHANGED <<sdkVars, now, env, kv, hash, lists, channel, attempts, appended>>

DocPrepareFallback(s) ==
    /\ run[s].pc = "prepare_fallback"
    /\ run' = [run EXCEPT ![s].pc = "set_tasks",
                  ![s].i = IF hash["extraction_result"].present
                           THEN hash["extraction_result"].val.total_chunks
                           ELSE Len(ChunkKeys)]
    /\ UNCHANGED <<sdkVars, now, env, kv, hash, lists, channel, attempts, appended>>

PreparedTasks(n) == [k \in 1..n |-> [chunk_id |-> k - 1, task_type |-> "summarize"]]

DocSetTasks(s) ==
    /\ run[s].pc = "set_tasks"
    /\ hash' = set_workflow_state("tasks", PreparedTasks(run[s].i))
    /\ run' = Goto(s, "set_task_count")
    /\ UNCHANGED <<sdkVars, now, env, kv, lists, channel, attempts, appended>>

DocSetTaskCount(s) ==
    /\ run[s].pc = "set_task_count"
    /\ hash' = set_workflow_state("task_count", run[s].i)
    /\ run' = CallWriteResult(s,
                [status |-> "success", tasks_prepared |-> run[s].i,
                 tasks |-> PreparedTasks(run[s].i)])
    /\ UNCHANGED <<sdkVars, now, env, kv, lists, channel, attempts, appended>>

\* except Exception: reconnect and write_error; a failure there is swallowed
DocExcept(s) ==
    /\ run[s].pc = "except"
    /\ \E connected \in BOOLEAN :
          run' = IF connected THEN Raise(s, run[s].err) ELSE Exit(run, s, "1")
    /\ UNCHANGED <<sdkVars, now, env, kv, hash, lists, channel, attempts, appended>>

(***************************************************************************)
(* workflow-demo/doc-extractor/app_multi.py                                *)
(***************************************************************************)
\* raise inside main's try block: write_error only if redis_client is set
MultiRaise(s, msg) ==
    IF run[s].redis_client THEN Raise(s, msg) ELSE Exit(run, s, "1")

MultiConnect(s) ==
    /\ Program(s) = "app_multi"
    /\ run[s].pc = "start"
    /\ \E connected \in BOOLEAN :
          run' = IF connected
                 THEN [run EXCEPT ![s].pc = "get_task", ![s].redis_client = TRUE]
                 ELSE MultiRaise(s, "Could not connect to Redis after all retries")
    /\ UNCHANGED <<sdkVars, now, env, kv, hash, lists, channel, attempts, appended>>

\* prepare_urls up to its first store write: the lines of /app/urls.txt, else
\* the task input's urls; the first ten that start with http:// or https://
IsHttp(url) == url \in {UrlNames[i] : i \in 1..Len(UrlNames)}
RECURSIVE ValidUrls(_, _)
ValidUrls(urls_input, n) ==
    IF urls_input = <<>> THEN <<>>
    ELSE IF IsHttp(Head(urls_input))
    THEN <<[url |-> Head(urls_input), url_id |-> n, status |-> "pending"]>>
         \o ValidUrls(Tail(urls_input), n + 1)
    ELSE ValidUrls(Tail(urls_input), n)

\* get_task, then main's dispatch on TASK_TYPE
MultiGetTask(s) ==
    /\ Program(s) = "app_multi"
    /\ run[s].pc = "get_task"
    /\ run' = IF ~kv[task_key(TASK_ID(s))].present THEN MultiRaise(s, "No task data found")
              ELSE IF TASK_TYPE(s) = "prepare_urls" THEN Goto(s, "prepare_urls")
              ELSE IF TASK_TYPE(s) = "process_url"
                   \* task_data stays with the process: its item is read from it later
                   THEN [run EXCEPT ![s].pc = "process_url",
                            ![s].url = kv[task_key(TASK_ID(s))].val.input.current_url]
              ELSE IF TASK_TYPE(s) = "aggregate" THEN Goto(s, "aggregate")
              ELSE MultiRaise(s, "Unknown task type")
    /\ UNCHANGED <<sdkVars, now, env, kv, hash, lists, channel, attempts, appended>>

MultiPrepareUrls(s) ==
    /\ run[s].pc = "prepare_urls"
    /\ IF env.urls_txt = <<>>
       THEN /\ run' = MultiRaise(s, "No URLs provided for processing")
            /\ UNCHANGED hash
       ELSE /\ hash' = set_workflow_state("urls", ValidUrls(env.urls_txt, 0))
            /\ run' = Goto(s, "set_url_count")
    /\ UNCHANGED <<sdkVars, now, env, kv, lists, channel, attempts, appended>>

MultiSetUrlCount(s) ==
    /\ run[s].pc = "set_url_count"
    /\ LET valid_urls == ValidUrls(env.urls_txt, 0)
       IN /\ hash' = set_workflow_state("url_count", Len(valid_urls))
          /\ run' = CallWriteResult(s,
                [status |-> "success", urls_prepared |-> Len(valid_urls), urls |-> valid_urls])
    /\ UNCHANGED <<sdkVars, now, env, kv, lists, channel, attempts, appended>>

\* process_single_url: the item of the task input, else urls[worker_id] of the state
MultiProcessUrl(s) ==
    /\ run[s].pc = "process_url"
    /\ LET current_url == run[s].url
       IN run' = IF current_url # None
                 THEN [run EXCEPT ![s].pc = "fetch_web_content", ![s].url = current_url]
                 ELSE Goto(s, "process_fallback")
    /\ UNCHANGED <<sdkVars, now, env, kv, hash, lists, channel, attempts, appended>>

MultiProcessFallback(s) ==
    /\ run[s].pc = "process_fallback"
    /\ LET urls == IF hash["urls"].present THEN hash["urls"].val ELSE <<>>
       IN run' = IF Len(urls) = 0
                 THEN CallWriteResult(s, [status |-> "skipped"])
                 ELSE [run EXCEPT ![s].pc = "fetch_web_content", ![s].url = urls[1].url]
    /\ UNCHANGED <<sdkVars, now, env, kv, hash, lists, channel, attempts, appended>>

\* fetch_web_content catches every exception and answers with an "error" entry
MultiFetch(s) ==
    /\ run[s].pc = "fetch_web_content"
    /\ \E fetched \in BOOLEAN :
          run' = IF fetched
                 THEN [run EXCEPT ![s].pc = "set_content",
                          ![s].item = [url |-> run[s].url, status |-> "success"]]
                 ELSE [run EXCEPT ![s].pc = "set_result",
                          ![s].item = [url |-> run[s].url, status |-> "failed"]]
    /\ UNCHANGED <<sdkVars, now, env, kv, hash, lists, channel, attempts, appended>>

MultiSetContent(s) ==
    /\ run[s].pc = "set_content"
    /\ hash' = set_workflow_state("content_url_0", "content")
    /\ run' = Goto(s, "set_result")
    /\ UNCHANGED <<sdkVars, now, env, kv, lists, channel, attempts, appended>>

MultiSetResult(s) ==
    /\ run[s].pc = "set_result"
    /\ hash' = set_workflow_state("result_url_0", run[s].item)
    /\ run' = CallWriteResult(s, run[s].item)
    /\ UNCHANGED <<sdkVars, now, env, kv, lists, channel, attempts, appended>>

\* aggregate_results: url_count, then the result of each url id
MultiAggregate(s) ==
    /\ run[s].pc = "aggregate"
    /\ run' = [run EXCEPT ![s].pc = "read_result",
                  ![s].i = IF hash["url_count"].present THEN hash["url_count"].val ELSE 0]
    /\ UNCHANGED <<sdkVars, now, env, kv, hash, lists, channel, attempts, appended>>

MultiReadResult(s) ==
    /\ run[s].pc = "read_result"
    /\ run' = [run EXCEPT ![s].pc = "set_aggregated",
                  ![s].all_results =
                      IF run[s].i > 0 /\ hash["result_url_0"].present
                      THEN <<hash["result_url_0"].val>> ELSE <<>>]
    /\ UNCHANGED <<sdkVars, now, env, kv, hash, lists, channel, attempts, appended>>

Aggregated(url_count, all_results) ==
    [total_urls |-> url_count,
     successful |-> Cardinality({k \in 1..Len(all_results) : all_results[k].status = "success"}),
     failed |-> Cardinality({k \in 1..Len(all_results) : all_results[k].status # "success"}),
     individual_results |-> all_results]

MultiSetAggregated(s) ==
    /\ run[s].pc = "set_aggregated"
    /\ hash' = set_workflow_state("aggregated_results", Aggregated(run[s].i, run[s].all_results))
    /\ run' = CallWriteResult(s, Aggregated(run[s].i, run[s].all_results))
    /\ UNCHANGED <<sdkVars, now, env, kv, lists, channel, attempts, appended>>

(***************************************************************************)
(* The orchestrator.                                                       *)
(***************************************************************************)
\* What the orchestrator takes for a failed attempt: a nonzero exit, or an
\* item whose fetch failed (mapper.py: "this should trigger retry").
LastFailed(s) ==
    /\ run[s].pc = "done"
    /\ run[s].exit # "0" \/ IsErrorRecord(run[s].item)

RECURSIVE Reissues(_)
Reissues(S) ==
    IF S = {} THEN 0
    ELSE LET s == CHOOSE x \in S : TRUE
         IN (IF attempts[s] > 1 THEN attempts[s] - 1 ELSE 0) + Reissues(S \ {s})

\* At most one active assignment of a task id; a retry reissues the same id,
\* once the tasks started beside the failed one have ended.
MayIssue(s) ==
    /\ ~Active(s)
    /\ \/ attempts[s] = 0
       \/ /\ LastFailed(s)
          /\ Reissues(Slots) < MaxRetries
          /\ \A t \in Slots : ~Active(t)

\* The orchestrator creates task:{id} (expiring after TTL) and starts a
\* worker process for it.
Issue(s, input) ==
    /\ kv' = Set(kv, task_key(s), [input |-> input], TTL)
    /\ run' = [run EXCEPT ![s] = [IdleRun EXCEPT !.pc = "start"]]
    /\ attempts' = [attempts EXCEPT ![s] = @ + 1]
    /\ UNCHANGED <<sdkVars, now, env, hash, lists, channel, appended>>

MapTasks ==
    IF hash["urls"].present
    THEN {MapIds[i] : i \in 1..Len(hash["urls"].val)}
    ELSE {}
MapItem(s) == hash["urls"].val[CHOOSE i \in 1..Len(MapIds) : MapIds[i] = s]
\* map_config.item_alias names the input field that carries the item
NoInput == [current_url |-> None]
MapInput(item) == IF env.item_alias = "current_url" THEN [current_url |-> item] ELSE NoInput

DispatchList ==
    /\ env.workflow = "mapreduce"
    /\ MayIssue("list")
    /\ \A s \in MapSlots \cup {"red"} : attempts[s] = 0
    /\ Issue("list", NoInput)

\* MAP: one task per item of the LIST output, each with its item as input
DispatchMap(s) ==
    /\ run["list"].pc = "done"
    /\ s \in MapTasks
    /\ attempts["red"] = 0
    /\ MayIssue(s)
    /\ Issue(s, MapInput(MapItem(s)))

\* REDUCE: once no map task is running or still to be started
DispatchReduce ==
    /\ run["list"].pc = "done"
    /\ \A s \in MapTasks : attempts[s] > 0 /\ ~Active(s)
    /\ MayIssue("red")
    /\ Issue("red", NoInput)

\* The document workflow: extract, then prepare.
DispatchDoc(s) ==
    /\ env.workflow = "document"
    /\ s \in DocSlots
    /\ s = "prep" => run["ext"].pc = "done"
    /\ s = "ext" => attempts["prep"] = 0
    /\ MayIssue(s)
    /\ Issue(s, NoInput)

\* The multi-URL workflow: prepare, one process task per URL, aggregate.
DispatchMulti(s) ==
    /\ env.workflow = "multi-url"
    /\ s \in MultiSlots
    /\ s = "purl" => attempts["proc"] = 0 /\ attempts["agg"] = 0
    /\ s = "proc" => /\ run["purl"].pc = "done"
                     /\ hash["urls"].present /\ Len(hash["urls"].val) > 0
                     /\ attempts["agg"] = 0
    /\ s = "agg" => /\ run["purl"].pc = "done"
                    /\ hash["urls"].present /\ Len(hash["urls"].val) > 0
                            => attempts["proc"] > 0 /\ ~Active("proc")
    /\ MayIssue(s)
    /\ Issue(s, IF s = "proc" THEN MapInput(hash["urls"].val[1].url) ELSE NoInput)

(***************************************************************************)
(* sdk/python/agentainer_flow/client.py: WorkflowClient._request           *)
(***************************************************************************)
\* What one HTTP exchange can come to: a JSON answer with a status code, a
\* connection that fails (aiohttp.ClientConnectionError), or the session's
\* total timeout running out (asyncio.TimeoutError).
Exchanges == {"200", "404", "500", "connection_error", "timeout"}

\* except aiohttp.ClientError: the failures _request wraps into ClientError
WrappedByRequest == {"connection_error"}

\* _request: what the caller gets, the data or the exception raised
Request(exchange) ==
    IF exchange \in WrappedByRequest THEN [ok |-> FALSE, error |-> "ClientError"]
    ELSE IF exchange = "timeout" THEN [ok |-> FALSE, error |-> "asyncio.TimeoutError"]
    ELSE IF exchange \in {"404", "500"} THEN [ok |-> FALSE, error |-> "ClientError"]
    ELSE [ok |-> TRUE, error |-> None]

(***************************************************************************)
(* sdk/python/agentainer_flow/client.py: WorkflowExecution polling loops   *)
(***************************************************************************)
PollInterval == 2       \* await asyncio.sleep(2) of wait_for_completion

TerminalStatuses == {"completed", "failed", "cancelled"}
Timeouts == {0, 1, 3}
Intervals == {1, PollInterval}

IdleLoop ==
    [kind |-> None, pc |-> "idle", timeout_given |-> FALSE, timeout |-> 0,
     interval |-> PollInterval, callback |-> FALSE, start_time |-> 0,
     status |-> None, metrics |-> 0, calls |-> <<>>, ticks |-> 0, polls |-> 0,
     cancel |-> FALSE, late_polls |-> 0,
     error |-> None, ret_status |-> None, ret_metrics |-> 0, end_time |-> 0]

PollIdle ==
    /\ clock = 0
    /\ workflow = [status |-> "pending", metrics |-> 0]
    /\ loop = IdleLoop

LoopRunning == loop.pc \in {"get_workflow", "get_metrics", "sleep"}

\* an exception raised in the loop body: neither loop has a try block, so it
\* leaves the coroutine
Throw(e) == [loop EXCEPT !.pc = "raised", !.error = e, !.end_time = clock]

\* a loop that carries on after the cancellation is thrown into it
swallows_cancelled(next) == next

\* The coroutine is resumed from an await: with the CancelledError its task
\* was cancelled with, if any, else with the awaited result.
Resume(next) == IF loop.cancel THEN Throw("CancelledError") ELSE next

\* The orchestrator: the workflow's status moves forward and its metrics change.
OrchestratorAdvance ==
    /\ workflow.metrics < MaxMetrics
    /\ \/ /\ workflow.status = "pending"
          /\ workflow' = [status |-> "running", metrics |-> workflow.metrics + 1]
       \/ /\ workflow.status = "running"
          /\ \E st \in TerminalStatuses \cup {"running"} :
                workflow' = [status |-> st, metrics |-> workflow.metrics + 1]
    /\ UNCHANGED <<notPoll, clock, loop>>

\* the caller awaits execution.wait_for_completion(timeout)
CallWaitForCompletion ==
    /\ loop.pc = "idle"
    /\ \E given \in BOOLEAN, t \in Timeouts :
          /\ ~given => t = 0
          /\ loop' = [IdleLoop EXCEPT !.kind = "wait_for_completion", !.pc = "get_workflow",
                                      !.timeout_given = given, !.timeout = t,
                                      !.start_time = clock]
    /\ UNCHANGED <<notPoll, clock, workflow>>

\* the caller awaits execution.monitor(callback, interval)
CallMonitor ==
    /\ loop.pc = "idle"
    /\ \E cb \in BOOLEAN, iv \in Intervals :
          loop' = [IdleLoop EXCEPT !.kind = "monitor", !.pc = "get_workflow",
                                   !.callback = cb, !.interval = iv, !.start_time = clock]
    /\ UNCHANGED <<notPoll, clock, workflow>>

\* one pass of wait_for_completion's loop body, from get_workflow's answer to
\* the next await
WaitForCompletion ==
    /\ loop.kind = "wait_for_completion"
    /\ loop.pc = "get_workflow"
    /\ \E exchange \in Exchanges :
          LET r == Request(exchange)
              polled == [loop EXCEPT !.polls = @ + 1, !.status = workflow.status,
                                     !.late_polls = @ + (IF loop.cancel THEN 1 ELSE 0)]
          IN loop' = Resume(
                IF ~r.ok THEN Throw(r.error)
                ELSE IF workflow.status \in TerminalStatuses
                THEN [polled EXCEPT !.pc = "returned", !.ret_status = workflow.status,
                                    !.end_time = clock]
                ELSE IF loop.timeout_given /\ loop.timeout # 0
                        /\ clock - loop.start_time > loop.timeout
                THEN [polled EXCEPT !.pc = "raised", !.error = "TimeoutError",
                                    !.end_time = clock]
                ELSE [polled EXCEPT !.pc = "sleep"])
    /\ UNCHANGED <<notPoll, clock, workflow>>

\* monitor: self.workflow = await self.client.get_workflow(...)
MonitorGetWorkflow ==
    /\ loop.kind = "monitor"
    /\ loop.pc = "get_workflow"
    /\ \E exchange \in Exchanges :
          LET r == Request(exchange)
          IN loop' = Resume(
                IF ~r.ok THEN Throw(r.error)
                ELSE [loop EXCEPT !.pc = "get_metrics", !.polls = @ + 1,
                                  !.status = workflow.status,
                                  !.late_polls = @ + (IF loop.cancel THEN 1 ELSE 0)])
    /\ UNCHANGED <<notPoll, clock, workflow>>

\* monitor that looks at the status before it calls the callback
monitor_return_first ==
    /\ loop.kind = "monitor"
    /\ loop.pc = "get_metrics"
    /\ \E exchange \in Exchanges :
          LET r == Request(exchange)
              tick == [loop EXCEPT !.metrics = workflow.metrics, !.ticks = @ + 1]
          IN loop' = Resume(
                IF ~r.ok THEN Throw(r.error)
                ELSE IF loop.status \in TerminalStatuses
                THEN [tick EXCEPT !.pc = "returned", !.ret_status = loop.status,
                                  !.ret_metrics = workflow.metrics, !.end_time = clock]
                ELSE [tick EXCEPT !.pc = "sleep",
                         !.calls = IF loop.callback
                                   THEN Append(@, [status |-> loop.status,
                                                   metrics |-> workflow.metrics])
                                   ELSE @])
    /\ UNCHANGED <<notPoll, clock, workflow>>

\* monitor: metrics = await self.get_metrics(); the callback; the status check
MonitorGetMetrics ==
    /\ loop.kind = "monitor"
    /\ loop.pc = "get_metrics"
    /\ \E exchange \in Exchanges :
          LET r == Request(exchange)
              tick == [loop EXCEPT !.metrics = workflow.metrics, !.ticks = @ + 1,
                         !.calls = IF loop.callback
                                   THEN Append(@, [status |-> loop.status,
                                                   metrics |-> workflow.metrics])
                                   ELSE @]
          IN loop' = Resume(
                IF ~r.ok THEN Throw(r.error)
                ELSE IF loop.status \in TerminalStatuses
                THEN [tick EXCEPT !.pc = "returned", !.ret_status = loop.status,
                                  !.ret_metrics = workflow.metrics, !.end_time = clock]
                ELSE [tick EXCEPT !.pc = "sleep"])
    /\ UNCHANGED <<notPoll, clock, workflow>>

\* await asyncio.sleep(...) is over: the interval has passed on the clock
Sleep ==
    /\ loop.pc = "sleep"
    /\ IF loop.cancel
       THEN clock' = clock
       ELSE clock + loop.interval <= MaxClock /\ clock' = clock + loop.interval
    /\ loop' = Resume([loop EXCEPT !.pc = "get_workflow"])
    /\ UNCHANGED <<notPoll, workflow>>

\* The caller cancels the task the loop runs in (task.cancel(), or
\* asyncio.wait_for running out): the loop is suspended at an await.
CallerCancel ==
    /\ LoopRunning
    /\ ~loop.cancel
    /\ loop' = [loop EXCEPT !.cancel = TRUE]
    /\ UNCHANGED <<notPoll, clock, workflow>>

(***************************************************************************)
(* sdk/python/agentainer_flow/context.py: StateProxy, WorkflowContext      *)
(***************************************************************************)
Participants == {"p1", "p2"}
Deltas == {1, 2}
StateProxyKeys == {"k", "steps_completed"}

\* Python values a caller may hand to the proxy, and what the store holds.
JNull == [t |-> "null", n |-> 0]
JInt(n) == [t |-> "int", n |-> n]
Inputs == {[t |-> "str", n |-> 1], [t |-> "tuple", n |-> 1]}

\* _request(json=...): json.dumps writes a tuple as an array, which
\* response.json() reads back as a list
Json(v) == IF v.t = "tuple" THEN [v EXCEPT !.t = "list"] ELSE v

NoEntry == [present |-> FALSE, val |-> JNull]
CacheEntry(v) == [present |-> TRUE, val |-> v]

\* WorkflowClient: its state management is get_workflow_state and
\* update_workflow_state; any other attribute the proxy asks for is missing
ClientMethods == {"get_workflow_state", "update_workflow_state"}

\* increments[key]: the deltas of p's increment calls on key that no failed
\* exchange stood in the way of; after_append: whether the key of p's last
\* append_to_list call still had its cache entry when the call was over
\* got: the last call of p if it was a get(key, default): what the store
\* held for the key, and what the call returned or raised
NoGet ==
    [called |-> FALSE, default |-> JNull, stored |-> JNull, exchange |-> None,
     ret |-> JNull, error |-> None]

IdleProxy ==
    [_cache |-> [k \in StateProxyKeys |-> NoEntry], steps_completed |-> 0, pc |-> "idle",
     ops |-> 0, increments |-> [k \in StateProxyKeys |-> 0], after_append |-> FALSE,
     got |-> NoGet]

\* The default a caller hands to get, a value the state never holds.
Defaults == {[t |-> "str", n |-> 0]}

\* How the orchestrator answers a read of a key the state does not hold,
\* when it answers 200: with "data": null, or with no "data" member.
AbsentAnswers == {"null", "no_data"}

\* WorkflowClient.get_workflow_state(workflow_id, key): data["data"] of the
\* answer, a KeyError when the answer has no "data", or what _request raised
GetWorkflowState(key, exchange, answer) ==
    IF ~Request(exchange).ok
    THEN [error |-> Request(exchange).error, value |-> JNull]
    ELSE IF state[key] = JNull /\ answer = "no_data"
    THEN [error |-> "KeyError", value |-> JNull]
    ELSE [error |-> None, value |-> state[key]]

StateIdle ==
    /\ state = [k \in StateProxyKeys |-> JNull]
    /\ proxy = [p \in Participants |-> IdleProxy]
    /\ writers = {}

RECURSIVE OpsOf(_)
OpsOf(P) ==
    IF P = {} THEN 0
    ELSE LET p == CHOOSE x \in P : TRUE IN proxy[p].ops + OpsOf(P \ {p})

\* p is between two calls, and may make one more
MayCall(p) == proxy[p].pc = "idle" /\ OpsOf(Participants) < MaxOps

\* p's call is over
Called_(p) == [proxy[p] EXCEPT !.pc = "idle", !.ops = @ + 1, !.got = NoGet]

\* StateProxy.__getitem__
GetItem(p, key) ==
    /\ MayCall(p)
    /\ ~proxy[p]._cache[key].present
    /\ \E exchange \in Exchanges, answer \in AbsentAnswers :
          LET value == GetWorkflowState(key, exchange, answer)
          IN proxy' = [proxy EXCEPT ![p] =
                IF value.error = None
                THEN [Called_(p) EXCEPT !._cache[key] = CacheEntry(value.value)]
                ELSE Called_(p)]
    /\ UNCHANGED <<notState, state, writers>>

\* StateProxy.get: try: return self[key]; except KeyError: return default
Get(p, key, default) ==
    /\ MayCall(p)
    /\ IF proxy[p]._cache[key].present
       THEN proxy' = [proxy EXCEPT ![p] =
                [Called_(p) EXCEPT !.got =
                    [called |-> TRUE, default |-> default, stored |-> state[key],
                     exchange |-> None, ret |-> proxy[p]._cache[key].val,
                     error |-> None]]]
       ELSE \E exchange \in Exchanges, answer \in AbsentAnswers :
               LET value == GetWorkflowState(key, exchange, answer)
                   got == [called |-> TRUE, default |-> default, stored |-> state[key],
                           exchange |-> exchange, ret |-> JNull, error |-> None]
               IN proxy' = [proxy EXCEPT ![p] =
                     IF value.error = None
                     THEN [Called_(p) EXCEPT !._cache[key] = CacheEntry(value.value),
                                             !.got = [got EXCEPT !.ret = value.value]]
                     ELSE IF value.error = "KeyError"
                     THEN [Called_(p) EXCEPT !.got = [got EXCEPT !.ret = default]]
                     ELSE [Called_(p) EXCEPT !.got = [got EXCEPT !.error = value.error]]]
    /\ UNCHANGED <<notState, state, writers>>

\* StateProxy.__setitem__
SetItem(p, key, value) ==
    /\ MayCall(p)
    /\ \E exchange \in Exchanges :
          IF Request(exchange).ok
          THEN /\ state' = [state EXCEPT ![key] = Json(value)]
               /\ writers' = writers \cup {p}
               /\ proxy' = [proxy EXCEPT ![p] =
                     [Called_(p) EXCEPT !._cache[key] = CacheEntry(value)]]
          ELSE /\ proxy' = [proxy EXCEPT ![p] = Called_(p)]
               /\ UNCHANGED <<state, writers>>
    /\ UNCHANGED notState

\* StateProxy.increment: result = await self.client.increment_state(...),
\* an AttributeError when the client has no such method
Increment(p, key, delta) ==
    /\ \/ MayCall(p)
       \/ proxy[p].pc = "increment" /\ key = "steps_completed" /\ delta = 1
    /\ IF "increment_state" \in ClientMethods
       THEN \E exchange \in Exchanges :
               LET result == JInt(state[key].n + delta)
               IN IF Request(exchange).ok
                  THEN /\ state' = [state EXCEPT ![key] = result]
                       /\ writers' = writers \cup {p}
                       /\ proxy' = [proxy EXCEPT ![p] =
                             [Called_(p) EXCEPT !._cache[key] = CacheEntry(result),
                                                !.increments[key] = @ + delta]]
                  ELSE /\ proxy' = [proxy EXCEPT ![p] = Called_(p)]
                       /\ UNCHANGED <<state, writers>>
       ELSE /\ proxy' = [proxy EXCEPT ![p] =
                  [Called_(p) EXCEPT !.increments[key] = @ + delta]]
            /\ UNCHANGED <<state, writers>>
    /\ UNCHANGED notState

\* StateProxy.append_to_list: the client call, then the cache entry is dropped
AppendToList(p, key, value) ==
    /\ MayCall(p)
    /\ IF "append_to_state_list" \in ClientMethods
       THEN \E exchange \in Exchanges :
               IF Request(exchange).ok
               THEN /\ state' = [state EXCEPT ![key] = [t |-> "list", n |-> @.n + 1]]
                    /\ writers' = writers \cup {p}
                    /\ proxy' = [proxy EXCEPT ![p] =
                          [Called_(p) EXCEPT !._cache[key] = NoEntry,
                                             !.after_append = FALSE]]
               ELSE /\ proxy' = [proxy EXCEPT ![p] =
                          [Called_(p) EXCEPT !.after_append = proxy[p]._cache[key].present]]
                    /\ UNCHANGED <<state, writers>>
       ELSE /\ proxy' = [proxy EXCEPT ![p] =
                  [Called_(p) EXCEPT !.after_append = proxy[p]._cache[key].present]]
            /\ UNCHANGED <<state, writers>>
    /\ UNCHANGED notState

\* WorkflowContext.mark_step_completed: the local count, then the store's
MarkStepCompleted(p) ==
    /\ MayCall(p)
    /\ proxy' = [proxy EXCEPT ![p].steps_completed = @ + 1, ![p].pc = "increment"]
    /\ UNCHANGED <<notState, state, writers>>

StateProxyCall(p) ==
    \/ \E key \in StateProxyKeys : GetItem(p, key)
    \/ \E key \in StateProxyKeys, default \in Defaults : Get(p, key, default)
    \/ \E key \in StateProxyKeys, value \in Inputs : SetItem(p, key, value)
    \/ \E key \in StateProxyKeys, delta \in Deltas : Increment(p, key, delta)
    \/ \E key \in StateProxyKeys, value \in Inputs : AppendToList(p, key, value)
    \/ MarkStepCompleted(p)

LoopStep == WaitForCompletion \/ MonitorGetWorkflow \/ MonitorGetMetrics \/ Sleep

(***************************************************************************)
(* sdk/python/agentainer_flow/decorators.py                                *)
(***************************************************************************)
\* The names a class body gives its methods, in alphabetical order: the
\* order in which dir(cls) lists them.
MethodNames == <<"extract", "merge", "process_dataset", "report">>

\* The keyword arguments of step(); an omitted max_workers (None) is written
\* 0 and an omitted depends_on is written <<>>.
StepKwargs ==
    {k \in [name : {None, "load"}, image : {None}, parallel : BOOLEAN,
            max_workers : {0}, reduce : BOOLEAN,
            depends_on : {<<>>, <<"load">>, <<"merge">>}] :
        k.parallel => ~k.reduce /\ k.name = None /\ k.depends_on = <<>>}

\* What is written above a method: nothing, @step(...), @parallel(...) or
\* @mapreduce(mapper=..., reducer=..., max_parallel=...).
Declarations ==
    {[declarator |-> "none", kwargs |-> None]}
    \cup {[declarator |-> "step", kwargs |-> k] : k \in StepKwargs}
    \cup {[declarator |-> "parallel", kwargs |-> [max_workers |-> n]] : n \in {20}}
    \cup {[declarator |-> "mapreduce",
           kwargs |-> [mapper |-> "mapper:latest", reducer |-> "reducer:latest",
                       max_parallel |-> n]] : n \in {20}}

\* What is written above the class.
ClassDeclarations ==
    {[declarator |-> "workflow", kwargs |-> [name |-> "test-workflow"]],
     [declarator |-> "mapreduce",
      kwargs |-> [mapper |-> "mapper:latest", reducer |-> "reducer:latest",
                  max_parallel |-> 20]]}

\* The attributes a function does not have.
NoStepMeta ==
    [name |-> None, func |-> None, step_type |-> None,
     config |-> [image |-> None, parallel |-> FALSE, max_workers |-> 0, reduce |-> FALSE],
     depends_on |-> <<>>]
NoMapReduceConfig == [mapper |-> None, reducer |-> None, max_parallel |-> 0]

\* An attribute without step metadata: a plain function.
Function(func) ==
    [attr_name |-> func, has_step_meta |-> FALSE, _step_meta |-> NoStepMeta,
     _mapreduce_config |-> NoMapReduceConfig]

\* step(**kwargs)(func): the wrapper carrying _step_meta
step(kwargs, func) ==
    [attr_name |-> func,
     has_step_meta |-> TRUE,
     _mapreduce_config |-> NoMapReduceConfig,
     _step_meta |->
        [name |-> IF kwargs.name # None THEN kwargs.name ELSE func,
         func |-> func,
         step_type |-> IF kwargs.reduce THEN "reduce"
                       ELSE IF kwargs.parallel THEN "parallel"
                       ELSE "sequential",
         config |-> [image |-> IF kwargs.image # None THEN kwargs.image ELSE "default",
                     parallel |-> kwargs.parallel,
                     max_workers |-> kwargs.max_workers,
                     reduce |-> kwargs.reduce],
         depends_on |-> kwargs.depends_on]]

\* parallel(max_workers)(func)
parallel(kwargs, func) ==
    step([name |-> None, image |-> None, parallel |-> TRUE,
          max_workers |-> kwargs.max_workers, reduce |-> FALSE,
          depends_on |-> <<>>], func)

\* dict[key] = value: an existing key keeps its place
DictSet(d, key, value) ==
    IF \E i \in 1..Len(d) : d[i].name = key
    THEN [i \in 1..Len(d) |-> IF d[i].name = key THEN value ELSE d[i]]
    ELSE Append(d, value)

\* dir(cls): the attributes by name, in alphabetical order
RECURSIVE dir(_, _)
dir(attrs, i) ==
    IF i > Len(MethodNames) THEN <<>>
    ELSE SelectSeq(attrs, LAMBDA a : a.attr_name = MethodNames[i]) \o dir(attrs, i + 1)

\* workflow(name)(cls): the loop over dir(cls) that fills meta.steps
RECURSIVE CollectSteps(_, _)
CollectSteps(attrs, steps) ==
    IF attrs = <<>> THEN steps
    ELSE CollectSteps(Tail(attrs),
                      IF Head(attrs).has_step_meta
                      THEN DictSet(steps, Head(attrs)._step_meta.name, Head(attrs)._step_meta)
                      ELSE steps)

workflow_decorator(name, attrs) ==
    [decorated |-> TRUE, name |-> name, steps |-> CollectSteps(dir(attrs, 1), <<>>)]

\* cls.__name__.lower()
lower(name) == IF name = "TestWorkflow" THEN "testworkflow" ELSE name

\* mapreduce(mapper, reducer, max_parallel)(func) above a method: records
\* _mapreduce_config on the function and applies workflow() to it; the
\* function comes back without _step_meta
mapreduce(kwargs, func) ==
    [Function(func) EXCEPT !._mapreduce_config = kwargs]

\* mapreduce(...)(cls) above a class: workflow(name=cls.__name__.lower())
mapreduce_class(kwargs, name, attrs) ==
    workflow_decorator(lower(name), attrs)

\* The attribute a method declaration leaves in the class.
Declare(d, func) ==
    IF d.declarator = "step" THEN step(d.kwargs, func)
    ELSE IF d.declarator = "parallel" THEN parallel(d.kwargs, func)
    ELSE IF d.declarator = "mapreduce" THEN mapreduce(d.kwargs, func)
    ELSE Function(func)

\* The class declarator applied to the finished class.
DeclareClass(c, attrs) ==
    IF c.declarator = "workflow" THEN workflow_decorator(c.kwargs.name, attrs)
    ELSE mapreduce_class(c.kwargs, "TestWorkflow", attrs)

ClassBodies ==
    UNION {[1..n -> Declarations] : n \in 0..MaxMethods}

\* The names of a body of n methods, in the order they are written: the
\* alphabetical one or its reverse.
NameOrders(n) ==
    {[i \in 1..n |-> MethodNames[i]], [i \in 1..n |-> MethodNames[n + 1 - i]]}

Undeclared == [decorated |-> FALSE, name |-> None, steps |-> <<>>]

\* WorkflowTestRunner.__init__
NewRunner ==
    [pc |-> "idle", i |-> 0, executed_steps |-> <<>>, results |-> <<>>, state |-> {}]

\* No class under definition.
DeclIdle ==
    /\ decl = [pc |-> "idle", body |-> <<>>, names |-> <<>>, above |-> None,
               attrs |-> <<>>, _workflow_meta |-> Undeclared]
    /\ runner = NewRunner

\* Python starts evaluating a class statement.
ClassStatements ==
    UNION {{[pc |-> "body", body |-> b, names |-> n, above |-> c, attrs |-> <<>>,
             _workflow_meta |-> Undeclared] : n \in NameOrders(Len(b))} :
            b \in ClassBodies, c \in ClassDeclarations}

\* The next def of the body, with its declarator applied.
DefineMethod ==
    /\ decl.pc = "body"
    /\ Len(decl.attrs) < Len(decl.body)
    /\ LET i == Len(decl.attrs) + 1
       IN decl' = [decl EXCEPT !.attrs = Append(@, Declare(decl.body[i], decl.names[i]))]
    /\ UNCHANGED <<notDecl, runner>>

\* The body is complete: the class declarator runs.
DecorateClass ==
    /\ decl.pc = "body"
    /\ Len(decl.attrs) = Len(decl.body)
    /\ decl' = [decl EXCEPT !.pc = "declared",
                            !._workflow_meta = DeclareClass(decl.above, decl.attrs)]
    /\ UNCHANGED <<notDecl, runner>>

(***************************************************************************)
(* sdk/python/agentainer_flow/testing.py: WorkflowTestRunner               *)
(***************************************************************************)
\* A class statement evaluated to its end.
Declared(cs) ==
    LET attrs == [i \in 1..Len(cs.body) |-> Declare(cs.body[i], cs.names[i])]
    IN [cs EXCEPT !.pc = "declared", !.attrs = attrs,
                  !._workflow_meta = DeclareClass(cs.above, attrs)]

\* What the body of a step method comes to.
StepOutcomes == {"return", "raise"}

\* run_workflow is called: meta, the state, the mock context
RunnerCall ==
    /\ runner.pc = "idle"
    /\ decl.pc = "declared"
    /\ runner' = [runner EXCEPT !.pc = "steps", !.i = 1]
    /\ UNCHANGED <<notDecl, decl>>

\* for step_name, step_meta in meta.steps.items(): record the execution,
\* call the step method, keep its result in results and in the state
RunnerStep(outcome) ==
    /\ runner.pc = "steps"
    /\ runner.i <= Len(decl._workflow_meta.steps)
    /\ LET step_name == decl._workflow_meta.steps[runner.i].name
       IN runner' =
            IF outcome = "return"
            THEN [runner EXCEPT !.i = @ + 1,
                                !.executed_steps = Append(@, step_name),
                                !.results = Append(@, step_name),
                                !.state = @ \cup {step_name}]
            ELSE [runner EXCEPT !.pc = "raised",
                                !.executed_steps = Append(@, step_name)]
    /\ UNCHANGED <<notDecl, decl>>

\* return {"status": "completed", ...}
RunnerReturn ==
    /\ runner.pc = "steps"
    /\ runner.i > Len(decl._workflow_meta.steps)
    /\ runner' = [runner EXCEPT !.pc = "returned"]
    /\ UNCHANGED <<notDecl, decl>>

(***************************************************************************)
(* sdk/python/agentainer_flow/client.py: WorkflowClient calls, and          *)
(* sdk/python/agentainer_flow/context.py: Context                          *)
(***************************************************************************)
AgentNames == {"a1", "a2"}

\* The calls that only read: one _request each.
ReadCalls == {"get_workflow", "list_workflows", "get_workflow_state", "get_agent"}

\* input_data of run_workflow, its keys in the dict's order
InputDatas == {<<>>, <<"urls">>, <<"urls", "mode">>}

\* The classes run_workflow is handed: one that was never decorated, and
\* the classes whose methods are plain, @step() or @mapreduce(...).
RunDeclarations ==
    {d \in Declarations :
        \/ d.declarator = "none"
        \/ d.declarator = "step" /\ d.kwargs.name = None
                                 /\ ~d.kwargs.parallel /\ ~d.kwargs.reduce
        \/ d.declarator = "mapreduce" /\ d.kwargs.max_parallel = 20}

WorkflowClasses ==
    {Undeclared}
    \cup {DeclareClass(c, [i \in 1..Len(b) |-> Declare(b[i], MethodNames[i])]) :
            b \in {x \in ClassBodies : \A i \in 1..Len(x) : x[i] \in RunDeclarations},
            c \in ClassDeclarations}

StepNames(meta) == {meta.steps[i].name : i \in 1..Len(meta.steps)}

\* The orchestrator before any request.
NoRequests ==
    [workflow |-> FALSE, inputs |-> {}, steps |-> {}, started |-> FALSE,
     agents |-> [a \in AgentNames |-> "none"]]

\* The caller before any call.  The caller is either a script that runs a
\* workflow or a step that deploys agents through its Context: whichever it
\* does first, it does not do the other.
ClientIdle ==
    /\ orch = NoRequests
    /\ ctx = [pc |-> "idle", agent |-> None, _deployed_agents |-> <<>>, i |-> 0,
              stops |-> {}, cleaned |-> FALSE,
              run |-> "none", meta |-> Undeclared, input_data |-> <<>>,
              written |-> 0,
              start_issued |-> FALSE,
              last |-> [op |-> None, exchange |-> None, error |-> None],
              raised |-> None]

\* The orchestrator applying a request it answers with 200.
Orchestrator(op, arg) ==
    IF op = "deploy_agent" THEN [orch EXCEPT !.agents[arg] = "created"]
    ELSE IF op = "start_agent" THEN [orch EXCEPT !.agents[arg] = "running"]
    ELSE IF op = "stop_agent" THEN [orch EXCEPT !.agents[arg] = "stopped"]
    ELSE IF op = "create_workflow" THEN [orch EXCEPT !.workflow = TRUE]
    ELSE IF op = "update_workflow_state" THEN [orch EXCEPT !.inputs = @ \cup {arg}]
    ELSE IF op = "start_workflow" THEN [orch EXCEPT !.started = TRUE]
    ELSE orch

\* One _request: what the exchange came to and what _request raised.
Requested(op, exchange) ==
    [op |-> op, exchange |-> exchange, error |-> Request(exchange).error]

\* get_workflow, list_workflows, get_workflow_state, get_agent
ReadCall(op, exchange) ==
    /\ ctx.pc = "idle"
    /\ ctx' = [ctx EXCEPT !.last = Requested(op, exchange),
                          !.raised = Request(exchange).error]
    /\ UNCHANGED <<notClient, orch>>

\* Context.deploy_agent is called.
CallDeployAgent(name) ==
    /\ ctx.pc = "idle"
    /\ ctx.run = "none"
    /\ ~ctx.cleaned
    /\ orch.agents[name] = "none"
    /\ ctx' = [ctx EXCEPT !.pc = "deploy_agent", !.agent = name, !.raised = None]
    /\ UNCHANGED <<notClient, orch>>

\* agent = await self.client.deploy_agent(...): POST /agents
DeployAgent(exchange) ==
    /\ ctx.pc = "deploy_agent"
    /\ IF Request(exchange).ok
       THEN /\ orch' = Orchestrator("deploy_agent", ctx.agent)
            /\ ctx' = [ctx EXCEPT !.pc = "start_agent",
                                  !.last = Requested("deploy_agent", exchange)]
       ELSE /\ ctx' = [ctx EXCEPT !.pc = "idle",
                                  !.last = Requested("deploy_agent", exchange),
                                  !.raised = Request(exchange).error]
            /\ UNCHANGED orch
    /\ UNCHANGED notClient

\* await self.client.start_agent(agent.id), then
\* self._deployed_agents.append(deployed)
StartAgent(exchange) ==
    /\ ctx.pc = "start_agent"
    /\ IF Request(exchange).ok
       THEN /\ orch' = Orchestrator("start_agent", ctx.agent)
            /\ ctx' = [ctx EXCEPT !.pc = "idle",
                                  !._deployed_agents = Append(@, ctx.agent),
                                  !.last = Requested("start_agent", exchange)]
       ELSE /\ ctx' = [ctx EXCEPT !.pc = "idle",
                                  !.last = Requested("start_agent", exchange),
                                  !.raised = Request(exchange).error]
            /\ UNCHANGED orch
    /\ UNCHANGED notClient

\* Context.cleanup is called.
CallCleanup ==
    /\ ctx.pc = "idle"
    /\ ctx.run = "none"
    /\ ~ctx.cleaned
    /\ ctx' = [ctx EXCEPT !.pc = "cleanup", !.i = 1, !.raised = None]
    /\ UNCHANGED <<notClient, orch>>

\* for agent in self._deployed_agents: try: await agent.stop()
\* except Exception: pass
CleanupStop(exchange) ==
    /\ ctx.pc = "cleanup"
    /\ ctx.i <= Len(ctx._deployed_agents)
    /\ LET agent == ctx._deployed_agents[ctx.i]
       IN /\ orch' = IF Request(exchange).ok
                     THEN Orchestrator("stop_agent", agent)
                     ELSE orch
          /\ ctx' = [ctx EXCEPT !.i = @ + 1,
                                !.stops = @ \cup {agent},
                                !.last = Requested("stop_agent", exchange)]
    /\ UNCHANGED notClient

\* the loop of cleanup is exhausted
CleanupReturn ==
    /\ ctx.pc = "cleanup"
    /\ ctx.i > Len(ctx._deployed_agents)
    /\ ctx' = [ctx EXCEPT !.pc = "idle", !.cleaned = TRUE]
    /\ UNCHANGED <<notClient, orch>>

\* run_workflow is called: the hasattr check and meta
CallRunWorkflow(cls, input_data) ==
    /\ ctx.pc = "idle"
    /\ ctx.run = "none"
    /\ orch.agents = NoRequests.agents /\ ~ctx.cleaned
    /\ IF cls.decorated
       THEN ctx' = [ctx EXCEPT !.pc = "create_workflow", !.run = "running",
                               !.meta = cls, !.input_data = input_data,
                               !.raised = None]
       ELSE ctx' = [ctx EXCEPT !.run = "raised", !.raised = "WorkflowError"]
    /\ UNCHANGED <<notClient, orch>>

\* an exception leaves run_workflow
RunRaise(op, exchange) ==
    [ctx EXCEPT !.pc = "idle", !.run = "raised",
                !.last = Requested(op, exchange),
                !.raised = Request(exchange).error]

\* workflow = await self.create_workflow(name, description, config)
RunCreateWorkflow(exchange) ==
    /\ ctx.pc = "create_workflow"
    /\ IF Request(exchange).ok
       THEN /\ orch' = Orchestrator("create_workflow", None)
            /\ ctx' = [ctx EXCEPT !.pc = IF ctx.input_data = <<>> THEN "steps"
                                         ELSE "update_workflow_state",
                                  !.last = Requested("create_workflow", exchange)]
       ELSE /\ ctx' = RunRaise("create_workflow", exchange)
            /\ UNCHANGED orch
    /\ UNCHANGED notClient

\* for key, value in input_data.items(): await self.update_workflow_state(...)
RunUpdateWorkflowState(exchange) ==
    /\ ctx.pc = "update_workflow_state"
    /\ IF Request(exchange).ok
       THEN /\ orch' = Orchestrator("update_workflow_state",
                                     ctx.input_data[ctx.written + 1])
            /\ ctx' = [ctx EXCEPT !.pc = IF ctx.written + 1 = Len(ctx.input_data)
                                         THEN "steps"
                                         ELSE "update_workflow_state",
                                  !.written = @ + 1,
                                  !.last = Requested("update_workflow_state", exchange)]
       ELSE /\ ctx' = RunRaise("update_workflow_state", exchange)
            /\ UNCHANGED orch
    /\ UNCHANGED notClient

\* for step_name, step_meta in meta.steps.items(): the body builds
\* step_config and makes no request
RunBuildSteps ==
    /\ ctx.pc = "steps"
    /\ ctx' = [ctx EXCEPT !.pc = "start_workflow"]
    /\ UNCHANGED <<notClient, orch>>

\* await self.start_workflow(workflow.id)
RunStartWorkflow(exchange) ==
    /\ ctx.pc = "start_workflow"
    /\ IF Request(exchange).ok
       THEN /\ orch' = Orchestrator("start_workflow", None)
            /\ ctx' = [ctx EXCEPT !.pc = "idle", !.run = "returned",
                                  !.start_issued = TRUE,
                                  !.last = Requested("start_workflow", exchange)]
       ELSE /\ ctx' = [RunRaise("start_workflow", exchange) EXCEPT !.start_issued = TRUE]
            /\ UNCHANGED orch
    /\ UNCHANGED notClient

\* The SDK at rest, while the workers' protocol is explored.
SdkIdle == PollIdle /\ StateIdle /\ ClientIdle /\ DeclIdle

(***************************************************************************)
(* The system.                                                             *)
(***************************************************************************)
UrlLists == {[i \in 1..n |-> UrlNames[i]] : n \in 0..MaxUrls}
UrlsJsonValues ==
    {[set |-> FALSE, valid |-> FALSE, val |-> <<>>],
     [set |-> TRUE, valid |-> FALSE, val |-> <<>>]}
    \cup {[set |-> TRUE, valid |-> TRUE, val |-> l] : l \in UrlLists}

\* The step and task types a workflow's steps may be configured with.
StepTypes(s) ==
    IF s = "list" THEN {"list", "reduce"}
    ELSE IF s \in MapSlots THEN {"map"}
    ELSE IF s = "ext" THEN {"extract", "summarize"}
    ELSE IF s = "prep" THEN {"prepare"}
    ELSE IF s = "purl" THEN {"prepare_urls", "extract"}
    ELSE IF s = "proc" THEN {"process_url"}
    ELSE IF s = "agg" THEN {"aggregate"}
    ELSE {None}
DefaultTypes ==
    [s \in Slots |->
        IF s = "list" THEN "list" ELSE IF s \in MapSlots THEN "map"
        ELSE IF s = "ext" THEN "extract" ELSE IF s = "prep" THEN "prepare"
        ELSE IF s = "purl" THEN "prepare_urls" ELSE IF s = "proc" THEN "process_url"
        ELSE IF s = "agg" THEN "aggregate" ELSE None]
\* every step configured as the workflow means it, or one step mistyped
TypeMaps ==
    UNION {{[DefaultTypes EXCEPT ![s] = t] : t \in StepTypes(s)} : s \in Slots}
UnsetUrlsJson == [set |-> FALSE, valid |-> FALSE, val |-> <<>>]

MapReduceConfigs ==
    {c \in [workflow : {"mapreduce"},
            STEP_TYPE : TypeMaps,
            URLS_JSON : UrlsJsonValues,
            item_alias : {"current_url", "item"},
            TASK_ID_set : BOOLEAN,
            urls_txt : {<<>>}] :
        /\ \A s \in Slots \ MRSlots : c.STEP_TYPE[s] = DefaultTypes[s]
        /\ ~c.TASK_ID_set => c.STEP_TYPE = DefaultTypes /\ c.item_alias = "current_url"
        /\ c.STEP_TYPE["list"] # "list" => ~c.URLS_JSON.set
        /\ ParsedUrls(c.URLS_JSON) = <<>> => c.item_alias = "current_url"}

DocumentConfigs ==
    {c \in [workflow : {"document"},
            STEP_TYPE : TypeMaps,
            URLS_JSON : {UnsetUrlsJson},
            item_alias : {"current_url"},
            TASK_ID_set : BOOLEAN,
            urls_txt : {<<>>}] :
        /\ \A s \in Slots \ DocSlots : c.STEP_TYPE[s] = DefaultTypes[s]}

\* urls.txt: no usable line, one URL, or one line that is no http(s) URL
MultiUrlConfigs ==
    {c \in [workflow : {"multi-url"},
            STEP_TYPE : TypeMaps,
            URLS_JSON : {UnsetUrlsJson},
            item_alias : {"current_url", "item"},
            TASK_ID_set : BOOLEAN,
            urls_txt : {<<>>, <<"u1">>, <<"ftp">>}] :
        /\ \A s \in Slots \ MultiSlots : c.STEP_TYPE[s] = DefaultTypes[s]
        /\ c.urls_txt # <<"u1">> => c.item_alias = "current_url"}

Configs == MapReduceConfigs \cup DocumentConfigs \cup MultiUrlConfigs

\* no task issued yet, the store empty
WorkersStart ==
    /\ now = 0
    /\ kv = [k \in Keys |-> Absent]
    /\ hash = [k \in StateKeys |-> HAbsent]
    /\ lists = [l \in ListNames |-> <<>>]
    /\ channel = [t \in TaskIds |-> <<>>]
    /\ run = [s \in Slots |-> IdleRun]
    /\ attempts = [s \in Slots |-> 0]
    /\ appended = [s \in Slots |-> 0]

\* the workers at rest, while the SDK is explored: no workflow is dispatched
WorkersIdle ==
    /\ env = [workflow |-> None, STEP_TYPE |-> DefaultTypes, URLS_JSON |-> UnsetUrlsJson,
              item_alias |-> "current_url", TASK_ID_set |-> TRUE, urls_txt |-> <<>>]
    /\ WorkersStart

Init ==
    /\ env \in Configs
    /\ WorkersStart
    /\ SdkIdle

Next ==
    \/ DispatchList
    \/ \E s \in MapSlots : DispatchMap(s)
    \/ DispatchReduce
    \/ \E s \in DocSlots : DispatchDoc(s)
    \/ \E s \in MultiSlots : DispatchMulti(s)
    \/ \E s \in MapperSlots : MapperMain(s)
    \/ \E s \in MapperSlots : ListPhase(s)
    \/ \E s \in MapperSlots : ListTotal(s)
    \/ \E s \in MapperSlots : GetTaskData(s)
    \/ \E s \in MapperSlots : GetStateUrl(s)
    \/ \E s \in MapperSlots : RetryGet(s)
    \/ \E s \in MapperSlots : RetryIncr(s)
    \/ \E s \in MapperSlots : RetryExpire(s)
    \/ \E s \in MapperSlots : Fetch(s)
    \/ \E s \in MapperSlots : MapAppend(s)
    \/ \E s \in ReducerSlots : ReduceReadResults(s)
    \/ \E s \in ReducerSlots : ReduceReadErrors(s)
    \/ \E s \in ReducerSlots : ReducePhase(s)
    \/ \E s \in DocSlots : DocConnect(s)
    \/ \E s \in DocSlots : DocGetTask(s)
    \/ \E s \in DocSlots : DocSetChunk(s)
    \/ \E s \in DocSlots : DocSetExtractionResult(s)
    \/ \E s \in DocSlots : DocSetChunkCount(s)
    \/ \E s \in DocSlots : DocSetChunks(s)
    \/ \E s \in DocSlots : DocPrepareTasks(s)
    \/ \E s \in DocSlots : DocPrepareFallback(s)
    \/ \E s \in DocSlots : DocSetTasks(s)
    \/ \E s \in DocSlots : DocSetTaskCount(s)
    \/ \E s \in DocSlots : DocExcept(s)
    \/ \E s \in MultiSlots : MultiConnect(s)
    \/ \E s \in MultiSlots : MultiGetTask(s)
    \/ \E s \in MultiSlots : MultiPrepareUrls(s)
    \/ \E s \in MultiSlots : MultiSetUrlCount(s)
    \/ \E s \in MultiSlots : MultiProcessUrl(s)
    \/ \E s \in MultiSlots : MultiProcessFallback(s)
    \/ \E s \in MultiSlots : MultiFetch(s)
    \/ \E s \in MultiSlots : MultiSetContent(s)
    \/ \E s \in MultiSlots : MultiSetResult(s)
    \/ \E s \in MultiSlots : MultiAggregate(s)
    \/ \E s \in MultiSlots : MultiReadResult(s)
    \/ \E s \in MultiSlots : MultiSetAggregated(s)
    \/ \E s \in Slots : WriteResult(s)
    \/ \E s \in Slots : WriteError(s)

Spec == Init /\ [][Next]_vars

(***************************************************************************)
(* The same system with the store's clock running: keys written with an    *)
(* expiry leave the store once their time has come.                        *)
(***************************************************************************)
HalfTtl == TTL \div 2

\* what the store holds of an entry at time t
ExpireAt(e, t) == IF e.present /\ e.exp # 0 /\ e.exp <= t THEN Absent ELSE e

\* Half a TTL passes.  A worker runs for seconds, so the clock is moved
\* between the runs of workers only.
Tick ==
    /\ now < MaxTicks * HalfTtl
    /\ \A s \in Slots : ~Active(s)
    /\ now' = now + HalfTtl
    /\ kv' = [k \in Keys |-> ExpireAt(kv[k], now + HalfTtl)]
    /\ UNCHANGED <<sdkVars, env, hash, lists, channel, run, attempts, appended>>

ClockNext == Next \/ Tick

SpecClock == Init /\ [][ClockNext]_vars

(***************************************************************************)
(* The polling loops of a WorkflowExecution, against an orchestrator whose  *)
(* workflow advances on its own.                                           *)
(***************************************************************************)
PollInit == WorkersIdle /\ SdkIdle

PollNext ==
    \/ OrchestratorAdvance
    \/ CallWaitForCompletion
    \/ CallMonitor
    \/ WaitForCompletion
    \/ MonitorGetWorkflow
    \/ MonitorGetMetrics
    \/ Sleep
    \/ CallerCancel

SpecPoll == PollInit /\ [][PollNext]_vars

(***************************************************************************)
(* Participants of one workflow, each with its own StateProxy.             *)
(***************************************************************************)
StateInit == WorkersIdle /\ SdkIdle

StateNext == \E p \in Participants : StateProxyCall(p)

SpecState == StateInit /\ [][StateNext]_vars

(***************************************************************************)
(* A caller of the WorkflowClient and of a step Context, against an        *)
(* orchestrator that applies the requests it answers with 200.             *)
(***************************************************************************)
ClientInit == WorkersIdle /\ SdkIdle

ClientNext ==
    \/ \E op \in ReadCalls, exchange \in Exchanges : ReadCall(op, exchange)
    \/ \E name \in AgentNames : CallDeployAgent(name)
    \/ \E exchange \in Exchanges : DeployAgent(exchange)
    \/ \E exchange \in Exchanges : StartAgent(exchange)
    \/ CallCleanup
    \/ \E exchange \in Exchanges : CleanupStop(exchange)
    \/ CleanupReturn
    \/ \E cls \in WorkflowClasses, input_data \in InputDatas : CallRunWorkflow(cls, input_data)
    \/ \E exchange \in Exchanges : RunCreateWorkflow(exchange)
    \/ \E exchange \in Exchanges : RunUpdateWorkflowState(exchange)
    \/ RunBuildSteps
    \/ \E exchange \in Exchanges : RunStartWorkflow(exchange)

SpecClient == ClientInit /\ [][ClientNext]_vars

(***************************************************************************)
(* Python evaluating the definition of a workflow class.                   *)
(***************************************************************************)
DeclInit ==
    /\ WorkersIdle /\ PollIdle /\ StateIdle /\ ClientIdle
    /\ decl \in ClassStatements
    /\ runner = NewRunner

DeclNext == DefineMethod \/ DecorateClass

SpecDecl == DeclInit /\ [][DeclNext]_vars

(***************************************************************************)
(* A WorkflowTestRunner running a declared workflow class.                 *)
(***************************************************************************)
RunnerInit ==
    /\ WorkersIdle /\ PollIdle /\ StateIdle /\ ClientIdle
    /\ decl \in {Declared(cs) : cs \in ClassStatements}
    /\ runner = NewRunner

RunnerNext ==
    \/ RunnerCall
    \/ \E outcome \in StepOutcomes : RunnerStep(outcome)
    \/ RunnerReturn

SpecRunner == RunnerInit /\ [][RunnerNext]_vars

(***************************************************************************)
(* Properties.                                                             *)
(***************************************************************************)
Last(seq) == seq[Len(seq)]
\* the notification a finished run of task id s has sent: the last one on its
\* channel; workers left without TASK_ID share one default id and one channel
Notified(s, status) ==
    IF env.TASK_ID_set THEN Last(channel[s]) = status
    ELSE status \in {channel[TASK_ID(s)][i] : i \in 1..Len(channel[TASK_ID(s)])}
\* how many records of a list carry a task id
RecordsOf(s, name) ==
    Cardinality({i \in 1..Len(lists[name]) : lists[name][i].task_id = s})
RECURSIVE Appends(_)
Appends(S) ==
    IF S = {} THEN 0
    ELSE LET s == CHOOSE x \in S : TRUE IN appended[s] + Appends(S \ {s})

\* C1: every notification published on task:{id}:complete so far has its
\* record in the store: task:{id}:result for "completed", task:{id}:error
\* for "error".
NotifiedRecordPresent ==
    \A t \in TaskIds : \A i \in 1..Len(channel[t]) :
        /\ channel[t][i] = "completed" => kv[result_key(t)].present
        /\ channel[t][i] = "error" => kv[error_key(t)].present

\* one task has been announced "completed" and another "error"
BothNotificationsSent ==
    \E t, u \in TaskIds :
        /\ channel[t] # <<>> /\ Last(channel[t]) = "completed"
        /\ channel[u] # <<>> /\ Last(channel[u]) = "error"
        /\ kv[result_key(t)].present /\ kv[error_key(u)].present

\* C2, as stated: a run of main that has ended has called exactly one of
\* write_result / write_error.
ExactlyOneOutcomeCall ==
    \A s \in Slots : run[s].pc = "done" => Len(run[s].calls) = 1

\* the MAP phase has processed its items
MapDone ==
    /\ run["list"].pc = "done"
    /\ MapTasks # {}
    /\ \A s \in MapTasks : attempts[s] > 0 /\ ~Active(s)

\* C3, as stated: once every map task has ended, an item whose task reached
\* its append has exactly one record in the two lists together, however
\* many times its task id was issued.
OneRecordPerItem ==
    MapDone =>
        \A s \in MapTasks :
            appended[s] > 0 => RecordsOf(s, "map_results") + RecordsOf(s, "map_errors") = 1

\* the run's fetch or processing raised
FailedItem(s) == "error_type" \in DOMAIN run[s].item

\* C4: a map run whose fetch or processing raised has filed its record,
\* tagged request_error or processing_error, in map_errors and not in
\* map_results; it calls write_result only and ends "completed" with exit 0.
ItemFailureContained ==
    \A s \in MapSlots :
        FailedItem(s) /\ run[s].pc \in {"write_result", "done"} =>
            /\ run[s].item.error_type \in {"request_error", "processing_error"}
            /\ \E i \in 1..Len(lists["map_errors"]) : lists["map_errors"][i] = run[s].item
            /\ \A i \in 1..Len(lists["map_results"]) : lists["map_results"][i] # run[s].item
            /\ run[s].calls = <<"write_result">>
            /\ run[s].pc = "done" =>
                    /\ run[s].exit = "0"
                    /\ Last(channel[TASK_ID(s)]) = "completed"
                    /\ kv[result_key(TASK_ID(s))].present

\* a map run whose processing raised has ended "completed"
FailedItemCompleted ==
    \E s \in MapSlots :
        /\ run[s].pc = "done" /\ FailedItem(s)
        /\ run[s].item.error_type = "processing_error"
        /\ Last(channel[TASK_ID(s)]) = "completed"

\* C5: the two lists hold exactly the records appended to them: of every
\* task id as many as its runs appended, and the record of a run that has
\* appended is in the list it chose.
AppendsAllKept ==
    /\ \A s \in MapSlots :
          RecordsOf(s, "map_results") + RecordsOf(s, "map_errors") = appended[s]
    /\ Len(lists["map_results"]) + Len(lists["map_errors"]) = Appends(MapSlots)
    /\ \A s \in MapSlots :
          run[s].pc \in {"write_result", "done"} /\ run[s].item # NoItem =>
              LET name == IF FailedItem(s) THEN "map_errors" ELSE "map_results"
              IN \E i \in 1..Len(lists[name]) : lists[name][i] = run[s].item

\* two workers running at once have both appended to the same list
ConcurrentAppendsDone ==
    \E s, t \in MapSlots :
        /\ s # t
        /\ run[s].pc = "write_result" /\ run[t].pc = "write_result"
        /\ run[s].wi = 1 /\ run[t].wi = 1
        /\ FailedItem(s) = FailedItem(t)
        /\ appended[s] = 1 /\ appended[t] = 1

\* the reducer run has stored its summary; what it read, and what it stored
SummaryWritten == run["red"].pc \in {"write_result", "done"}
ReadResults == run["red"].map_results
ReadErrors == run["red"].map_errors
final_summary == hash["final_summary"].val
\* the counts of the summary, and its rate wherever a record was read
SummaryCounts ==
    /\ hash["final_summary"].present
    /\ ReadResults = lists["map_results"] /\ ReadErrors = lists["map_errors"]
    /\ final_summary.total_urls_processed = Len(ReadResults)
    /\ final_summary.total_urls_failed = Len(ReadErrors)
    /\ Len(ReadResults) + Len(ReadErrors) > 0 =>
          /\ "success_rate" \in DOMAIN final_summary
          /\ final_summary.success_rate.num * (Len(ReadResults) + Len(ReadErrors))
                = 100 * Len(ReadResults) * final_summary.success_rate.den
    /\ Len(ReadResults) >= 1 /\ Len(ReadErrors) = 0 =>
          final_summary.success_rate = [num |-> 100, den |-> 1]

\* C6, amended: the summary's counts are the lengths of the two lists as
\* they finally are and, unless both are empty, success_rate is
\* 100 * successes / (successes + failures), unrounded: 100 for N successes
\* and no failure, 200/3 for 2 successes and 1 failure.  The summary of two
\* empty lists has no success_rate.
SummaryMatchesLists ==
    SummaryWritten =>
        /\ SummaryCounts
        /\ Len(ReadResults) = 2 /\ Len(ReadErrors) = 1 =>
              /\ final_summary.total_urls_processed = 2
              /\ final_summary.total_urls_failed = 1
              /\ final_summary.success_rate = [num |-> 200, den |-> 3]
        /\ Len(ReadResults) = 0 /\ Len(ReadErrors) = 0 =>
              "success_rate" \notin DOMAIN final_summary

\* C6, as stated: 2 successes and 1 failure give success_rate = 66.67
SummaryRateTwoDecimals ==
    SummaryWritten =>
        /\ SummaryCounts
        /\ Len(ReadResults) = 2 /\ Len(ReadErrors) = 1 =>
              final_summary.success_rate = [num |-> 6667, den |-> 100]

\* the reducer has summarised 2 successes and 1 failure
TwoOfThreeSummarised ==
    /\ run["red"].pc = "done"
    /\ Len(ReadResults) = 2 /\ Len(ReadErrors) = 1
    /\ hash["final_summary"].present

\* the summary carries every derived average and rate, each with the value 0
DerivedFields ==
    {"success_rate", "average_words_per_page", "average_unique_words_per_page",
     "average_bytes_per_page", "performance"}
ZeroRates ==
    /\ hash["final_summary"].present
    /\ DerivedFields \subseteq DOMAIN final_summary
    /\ final_summary.success_rate = Zero
    /\ final_summary.average_words_per_page = Zero
    /\ final_summary.average_unique_words_per_page = Zero
    /\ final_summary.average_bytes_per_page = Zero
    /\ final_summary.performance.avg_response_time = Zero
    /\ final_summary.performance.min_response_time = 0
    /\ final_summary.performance.max_response_time = 0

\* C7, as stated: whenever the reducer read an empty map_results, the summary
\* carries every derived average and rate, each with the value 0.
ZeroRatesWithoutResults ==
    SummaryWritten /\ ReadResults = <<>> => ZeroRates

\* C7, amended: when the reducer read an empty map_results and a non-empty
\* map_errors, the summary carries every derived average and rate with the
\* value 0; when it read two empty lists the summary carries none of them.
ZeroRatesWithErrorsOnly ==
    SummaryWritten /\ ReadResults = <<>> =>
        IF ReadErrors # <<>>
        THEN ZeroRates /\ final_summary.total_urls_failed = Len(ReadErrors)
        ELSE /\ hash["final_summary"].present
             /\ DerivedFields \cap DOMAIN final_summary = {}
             /\ final_summary.total_urls_processed = 0

\* the reducer has summarised failures only
OnlyFailuresSummarised ==
    /\ run["red"].pc = "done"
    /\ ReadResults = <<>> /\ ReadErrors # <<>>
    /\ hash["final_summary"].present
    /\ final_summary.success_rate = Zero

\* C8, amended: every reducer run ends with write_result, "completed" and
\* exit 0; two empty lists show only in the summary, which then, and only
\* then, carries an error field.
ReducerAlwaysCompletes ==
    /\ SummaryWritten =>
          /\ run["red"].calls = <<"write_result">>
          /\ ("error" \in DOMAIN final_summary) <=> (ReadResults = <<>> /\ ReadErrors = <<>>)
    /\ run["red"].pc = "done" =>
          /\ run["red"].exit = "0"
          /\ Notified("red", "completed")
          /\ kv[result_key(TASK_ID("red"))].present
          /\ env.TASK_ID_set => ~kv[error_key("red")].present

\* C8, as stated: with both lists empty the reducer ends with write_error
\* and "error", otherwise with write_result and "completed".
StarvationIsError ==
    run["red"].pc = "done" =>
        IF ReadResults = <<>> /\ ReadErrors = <<>>
        THEN run["red"].calls = <<"write_error">> /\ Notified("red", "error")
        ELSE run["red"].calls = <<"write_result">> /\ Notified("red", "completed")

\* the reducer has ended after reading two empty lists
StarvedReducerDone ==
    /\ run["red"].pc = "done"
    /\ ReadResults = <<>> /\ ReadErrors = <<>>
    /\ hash["final_summary"].present

\* C9: the state LIST writes never holds an empty urls or a total_items
\* other than the length of urls; a list_phase run either wrote both
\* entries and ends with write_result, or wrote neither and ends with
\* write_error.
ListAllOrNothing ==
    env.workflow = "mapreduce" =>
        /\ hash["urls"].present => hash["urls"].val # <<>>
        /\ hash["total_items"].present =>
              /\ hash["urls"].present
              /\ hash["total_items"].val = Len(hash["urls"].val)
        /\ run["list"].pc = "write_error" =>
              ~hash["urls"].present /\ ~hash["total_items"].present
        /\ run["list"].pc = "write_result" =>
              hash["urls"].present /\ hash["total_items"].present
        /\ run["list"].pc = "done" /\ run["list"].calls # <<>> =>
              \/ /\ run["list"].calls = <<"write_result">>
                 /\ Notified("list", "completed")
                 /\ hash["urls"].present /\ hash["total_items"].present
                 /\ hash["urls"].val = env.URLS_JSON.val
              \/ /\ run["list"].calls = <<"write_error">>
                 /\ Notified("list", "error")
                 /\ ~hash["urls"].present /\ ~hash["total_items"].present

\* LIST was given a list with no item and has reported the error
EmptyListRejected ==
    /\ env.URLS_JSON.set /\ env.URLS_JSON.valid /\ env.URLS_JSON.val = <<>>
    /\ run["list"].pc = "done"
    /\ run["list"].calls = <<"write_error">>
    /\ kv[error_key(TASK_ID("list"))].present

\* C10, as stated: no task id has both task:{id}:result and task:{id}:error
\* in the store.
OneTerminalRecord ==
    \A t \in TaskIds : ~(kv[result_key(t)].present /\ kv[error_key(t)].present)

\* a started worker with no entry at task:{TASK_ID}.  Task entries are
\* created under the issued id only, so a worker whose TASK_ID is unset
\* (and defaults to '' or '0') never has one.
CannotLocateTask(s) == run[s].pc # "idle" /\ ~kv[task_key(TASK_ID(s))].present
Called(s) == {run[s].calls[i] : i \in 1..Len(run[s].calls)}

\* C11: a worker that cannot locate its task makes no call of write_result,
\* never exits 0, and leaves the workflow state (hash and lists) as it was;
\* no other worker of the workflow can locate its task either, so the state
\* is still the initial, empty one.
TaskNotFoundIsFatal ==
    \A s \in Slots :
        CannotLocateTask(s) =>
            /\ "write_result" \notin Called(s)
            /\ run[s].exit # "0"
            /\ hash = [k \in StateKeys |-> HAbsent]
            /\ lists = [l \in ListNames |-> <<>>]

(***************************************************************************)
(* Properties of the SDK's polling loops.                                  *)
(***************************************************************************)
Elapsed == clock - loop.start_time

\* C12: wait_for_completion(timeout) polls every PollInterval seconds; it
\* returns only a terminal status it observed, raises its Timeout error no
\* earlier than timeout and no later than timeout plus one poll interval
\* after it was called, and, whatever timeout the caller supplied, is not
\* still polling a non-terminal workflow once that time is past.
WaitTimesOut ==
    loop.kind = "wait_for_completion" =>
        /\ loop.pc = "returned" =>
              loop.ret_status \in TerminalStatuses /\ loop.ret_status = loop.status
        /\ loop.pc = "raised" /\ loop.error = "TimeoutError" =>
              /\ loop.timeout_given
              /\ loop.end_time - loop.start_time >= loop.timeout
              /\ loop.end_time - loop.start_time <= loop.timeout + PollInterval
        /\ loop.timeout_given /\ LoopRunning => Elapsed <= loop.timeout + PollInterval

\* C13: a polling loop that is running can be cancelled by its caller; once
\* it is, the loop makes no further poll and no further callback, is resumed
\* without waiting for its sleep to run out, and ends with the CancelledError
\* instead of running on, whatever the workflow's status.
LoopsCancellable ==
    /\ LoopRunning /\ ~loop.cancel => ENABLED CallerCancel
    /\ loop.cancel =>
          /\ loop.late_polls = 0
          /\ LoopRunning => ENABLED LoopStep
          /\ ~LoopRunning => loop.pc = "raised" /\ loop.error = "CancelledError"

\* both loops have been cancelled while the workflow had not ended, one of
\* them a wait_for_completion whose timeout of 0 never runs out
LoopCancelled ==
    /\ loop.cancel /\ loop.pc = "raised" /\ loop.error = "CancelledError"
    /\ workflow.status \notin TerminalStatuses
    /\ loop.polls >= 2
    /\ loop.kind = "wait_for_completion" => loop.timeout_given /\ loop.timeout = 0

\* C14: monitor calls the callback once on every tick, the tick that
\* observes a terminal status included, and none when no callback was
\* supplied; what it returns is the metrics fetched on its last tick, the
\* snapshot its last callback invocation was given.
MonitorCallbackEveryTick ==
    loop.kind = "monitor" =>
        /\ Len(loop.calls) = IF loop.callback THEN loop.ticks ELSE 0
        /\ loop.pc = "returned" =>
              /\ loop.ret_status \in TerminalStatuses
              /\ loop.ret_metrics = loop.metrics
              /\ loop.callback =>
                    Last(loop.calls) = [status |-> loop.ret_status,
                                        metrics |-> loop.ret_metrics]

\* monitor has returned after several ticks over which the metrics changed
MonitorReturned ==
    /\ loop.kind = "monitor" /\ loop.pc = "returned" /\ loop.callback
    /\ loop.ticks >= 2
    /\ loop.calls[1].metrics # loop.ret_metrics
    /\ loop.calls[1].status \notin TerminalStatuses

(***************************************************************************)
(* Properties of the StateProxy.                                           *)
(***************************************************************************)
\* what proxy[key] returns to p when its request, if it needs one, succeeds
ProxyRead(p, key) ==
    IF proxy[p]._cache[key].present THEN proxy[p]._cache[key].val ELSE state[key]
RECURSIVE IncrementsOf(_, _)
IncrementsOf(P, key) ==
    IF P = {} THEN 0
    ELSE LET p == CHOOSE x \in P : TRUE
         IN proxy[p].increments[key] + IncrementsOf(P \ {p}, key)

\* C15: with no other writer to the workflow's state, whatever reads,
\* writes, increment and append_to_list calls a proxy has made, a read
\* through it returns the value the store holds for the key, and the key of
\* an append_to_list call has no cache entry left when the call is over.
ProxyReadsStoreValue ==
    \A p \in Participants :
        writers \subseteq {p} /\ proxy[p].pc = "idle" =>
            /\ \A key \in StateProxyKeys : ProxyRead(p, key) = state[key]
            /\ ~proxy[p].after_append

\* C16: once the participants' increment calls are over, a counter holds its
\* initial value plus the deltas of all of them, those of
\* mark_step_completed included, under every interleaving.
IncrementsAllApplied ==
    (\A p \in Participants : proxy[p].pc = "idle") =>
        \A key \in StateProxyKeys :
            state[key].t \in {"null", "int"} =>
                state[key].n = IncrementsOf(Participants, key)

(***************************************************************************)
(* Properties of the WorkflowClient and the step Context.                  *)
(***************************************************************************)
\* C17: every request that fails, by a status outside 2xx, a connection
\* error or a request timeout, reaches the caller of _request as ClientError.
FailedRequestsRaiseClientError ==
    ctx.last.op # None /\ ctx.last.exchange # "200" => ctx.last.error = "ClientError"

\* C18: once cleanup() has returned, a stop was issued for every agent whose
\* deploy request the orchestrator answered with success, and cleanup raised
\* nothing on the way.
CleanupStopsEveryDeployedAgent ==
    /\ ctx.pc = "cleanup" => ctx.raised = None
    /\ ctx.cleaned =>
          \A a \in AgentNames : orch.agents[a] # "none" => a \in ctx.stops

\* C19: when run_workflow issues the start request, the orchestrator has
\* received the create request, every entry of input_data and every step of
\* meta.steps.
RunWorkflowSubmitsBeforeStart ==
    ctx.start_issued =>
        /\ orch.workflow
        /\ \A k \in 1..Len(ctx.input_data) : ctx.input_data[k] \in orch.inputs
        /\ StepNames(ctx.meta) \subseteq orch.steps

(***************************************************************************)
(* Properties of the declarators.                                          *)
(***************************************************************************)
\* The steps the class statement declares: one for each @step and
\* @parallel, a map and a reduce step for each @mapreduce.
DeclaredStepNames ==
    {decl.attrs[i]._step_meta.name :
        i \in {j \in 1..Len(decl.body) : decl.body[j].declarator \in {"step", "parallel"}}}
    \cup UNION {{decl.names[i] \o "_map", decl.names[i] \o "_reduce"} :
        i \in {j \in 1..Len(decl.body) : decl.body[j].declarator = "mapreduce"}}

\* C20: a method declared with mapreduce gives the workflow's step graph
\* exactly two steps, <name>_map (PARALLEL, the mapper image, max_workers =
\* max_parallel) and <name>_reduce (REDUCE, the reducer image, depends_on the
\* map step alone), and no other declarator adds more than its one step.
MapReduceYieldsTwoSteps ==
    decl.pc = "declared" =>
        LET steps == decl._workflow_meta.steps
            Step(n) == CHOOSE m \in {steps[i] : i \in 1..Len(steps)} : m.name = n
        IN /\ StepNames(decl._workflow_meta) = DeclaredStepNames
           /\ \A i \in 1..Len(decl.body) :
                 decl.body[i].declarator = "mapreduce" =>
                    LET map == Step(decl.names[i] \o "_map")
                        red == Step(decl.names[i] \o "_reduce")
                        kwargs == decl.body[i].kwargs
                    IN /\ map.step_type = "parallel"
                       /\ map.config.image = kwargs.mapper
                       /\ map.config.max_workers = kwargs.max_parallel
                       /\ red.step_type = "reduce"
                       /\ red.config.image = kwargs.reducer
                       /\ red.depends_on = <<map.name>>

\* The step metadata the methods of the class body carry, as written.
DeclaredSteps ==
    LET with == SelectSeq(decl.attrs, LAMBDA a : a.has_step_meta)
    IN [i \in 1..Len(with) |-> with[i]._step_meta]

TableNames == [i \in 1..Len(decl._workflow_meta.steps) |-> decl._workflow_meta.steps[i].name]

\* C21: no declared workflow holds a REDUCE step without dependencies.
ReduceStepsHaveDependencies ==
    decl.pc = "declared" =>
        \A i \in 1..Len(decl._workflow_meta.steps) :
            decl._workflow_meta.steps[i].step_type = "reduce"
                => decl._workflow_meta.steps[i].depends_on # <<>>

\* C22: the step table of a declared workflow has one entry for each
\* declared step, and two declared steps never have the same name.
StepNamesUnique ==
    decl.pc = "declared" =>
        /\ Len(decl._workflow_meta.steps) = Len(DeclaredSteps)
        /\ \A i, j \in 1..Len(DeclaredSteps) :
              DeclaredSteps[i].name = DeclaredSteps[j].name => i = j

RECURSIVE Reaches(_, _, _, _)
Reaches(steps, a, b, n) ==
    /\ n > 0
    /\ \E i \in 1..Len(steps) :
          /\ steps[i].name = a
          /\ \E k \in 1..Len(steps[i].depends_on) :
                \/ steps[i].depends_on[k] = b
                \/ Reaches(steps, steps[i].depends_on[k], b, n - 1)

\* C23: in a declared workflow every depends_on name is the name of a step
\* of the workflow, and no step reaches itself through depends_on.
DependenciesFormDag ==
    decl.pc = "declared" =>
        LET steps == decl._workflow_meta.steps
        IN \A i \in 1..Len(steps) :
              /\ \A k \in 1..Len(steps[i].depends_on) :
                    steps[i].depends_on[k] \in StepNames(decl._workflow_meta)
              /\ ~Reaches(steps, steps[i].name, steps[i].name, Len(steps))

\* C24: iterating meta.steps yields the steps in the order they are written
\* in the class body (stated for bodies whose step names differ).
StepsInDeclarationOrder ==
    decl.pc = "declared"
    /\ (\A i, j \in 1..Len(DeclaredSteps) :
            DeclaredSteps[i].name = DeclaredSteps[j].name => i = j)
    => TableNames = [i \in 1..Len(DeclaredSteps) |-> DeclaredSteps[i].name]

(***************************************************************************)
(* Properties of the WorkflowTestRunner.                                   *)
(***************************************************************************)
\* C29: run_workflow starts a step only when every step named in its
\* depends_on has completed, and a run that returns has executed every
\* registered step exactly once; after a step raised no other step starts.
RunnerRespectsDependencies ==
    LET steps == decl._workflow_meta.steps
    IN /\ \A k \in 1..Len(runner.executed_steps) :
             \A d \in 1..Len(steps[k].depends_on) :
                \E j \in 1..(k - 1) : /\ runner.executed_steps[j] = steps[k].depends_on[d]
                                       /\ j <= Len(runner.results)
       /\ runner.pc = "returned" => runner.executed_steps = [i \in 1..Len(steps) |-> steps[i].name]
       /\ runner.pc = "raised" => Len(runner.executed_steps) = Len(runner.results) + 1

\* C28: get(key, default) returns the stored value when the state holds the
\* key and returns default, raising nothing, when it does not (the exchanges
\* that fail in transport or at the server set aside).
GetReturnsStoredOrDefault ==
    \A p \in Participants :
        LET got == proxy[p].got
        IN got.called =>
              IF got.stored = JNull
              THEN got.exchange \in {"200", "404"}
                      => got.error = None /\ got.ret = got.default
              ELSE got.exchange \in {None, "200"}
                      => got.error = None /\ got.ret = got.stored

(***************************************************************************)
(* mapper.py, map_phase: the retry counter and the recover-on-retry policy *)
(***************************************************************************)
PastFetch(s) == run[s].pc \in {"append", "write_result", "done"}

\* C25: a map task whose fetch answers with a server error (status >= 500)
\* recovers on retry, driven by the task's retry counter alone: the attempt
\* that reads the counter at 1 is forced to fail and files a failure record,
\* and a later attempt of the same task id, which reads the counter beyond
\* that, files a map_results record.
ServerErrorRecoversOnRetry ==
    \A s \in MapSlots :
        env.TASK_ID_set /\ PastFetch(s) /\ run[s].response = "500" =>
            /\ run[s].retry_count = 1 => IsErrorRecord(run[s].item)
            /\ run[s].retry_count > 1 => ~IsErrorRecord(run[s].item)

\* the attempts of task id t, and how many of them have incremented its counter
AttemptsOf(t) == {s \in MapSlots : attempts[s] > 0 /\ TASK_ID(s) = t}
Incremented(s) ==
    appended[s] + (IF run[s].pc \in {"retry_expire", "fetch", "append"} THEN 1 ELSE 0)
RECURSIVE IncrementsBy(_)
IncrementsBy(S) ==
    IF S = {} THEN 0
    ELSE LET s == CHOOSE x \in S : TRUE IN Incremented(s) + IncrementsBy(S \ {s})
RetryCounter(t) ==
    LET e == kv[retry_marker_key(t)] IN IF e.present THEN e.val ELSE 0

\* the attempt of s that has read the counter reads the value it increments
ObservesCounter(t) ==
    \A s \in AttemptsOf(t) :
        run[s].pc = "retry_incr" => run[s].retry_count = RetryCounter(t)
\* the increment an attempt of another task id is about to make leaves t's counter alone
OthersLeaveCounter(t) ==
    \A s \in MapSlots :
        TASK_ID(s) # t /\ run[s].pc = "retry_incr"
            => Incr(kv, retry_marker_key(TASK_ID(s)))[retry_marker_key(t)]
                  = kv[retry_marker_key(t)]

\* C26 as stated: the retry counter of task id t counts the attempts of t
\* that reached the fetch, whatever the interleaving and however long ago
\* they ran; the n-th such attempt reads n-1 and increments that very value;
\* attempts of another task id leave it alone.
RetryCounterPerTask ==
    \A t \in TaskIds :
        /\ RetryCounter(t) = IncrementsBy(AttemptsOf(t))
        /\ ObservesCounter(t)
        /\ OthersLeaveCounter(t)

\* C26, amended: the same while no counter can have expired, that is until
\* 3600 s after the workflow's first attempt; from then on the counter of t
\* counts at most the attempts of t, and still nobody else's.
RetryCounterUntilExpiry ==
    \A t \in TaskIds :
        /\ RetryCounter(t) <= IncrementsBy(AttemptsOf(t))
        /\ OthersLeaveCounter(t)
        /\ now < TTL => /\ RetryCounter(t) = IncrementsBy(AttemptsOf(t))
                        /\ ObservesCounter(t)

\* a restarted task id reads 1 and increments it, after the other task's
\* attempt has counted on its own key, half a TTL into the workflow
RestartReadsItsOwnCount ==
    \E s, r \in MapSlots :
        /\ s # r /\ env.TASK_ID_set
        /\ now = HalfTtl
        /\ run[s].pc = "retry_expire" /\ run[s].retry_count = 1
        /\ RetryCounter(s) = 2
        /\ RetryCounter(r) = 1

(***************************************************************************)
(* The terminal records and their TTL.                                     *)
(***************************************************************************)
TerminalKeys == UNION {{result_key(t), error_key(t)} : t \in TaskIds}

\* C27: a record written by write_result or write_error is read back
\* unchanged until 3600 s have passed since it was written and is absent
\* from then on; no step of any worker removes or changes it earlier.
RecordKeptUntilTtl ==
    [][\A k \in TerminalKeys :
          kv[k].present =>
              IF now' < kv[k].exp THEN kv'[k] = kv[k] ELSE ~kv'[k].present]_vars

(***************************************************************************)
(* Workflow-state mutations and the "completed" notification.              *)
(***************************************************************************)
\* main of s has called write_result, the call that publishes "completed"
Publishing(s) ==
    /\ run[s].pc \in {"write_result", "done"}
    /\ run[s].calls # <<>> /\ Last(run[s].calls) = "write_result"
Completed(s) == Publishing(s) /\ run[s].pc = "done"

InList(name, rec) == \E i \in 1..Len(lists[name]) : lists[name][i] = rec

\* the workflow-state mutations the run of s makes for its task are in the store
MutationsStored(s) ==
    CASE Program(s) = "mapper" /\ STEP_TYPE(s) = "map" ->
            InList(IF FailedItem(s) THEN "map_errors" ELSE "map_results", run[s].item)
      [] Program(s) = "mapper" /\ STEP_TYPE(s) = "list" ->
            /\ hash["urls"] = HEntry(ParsedUrls(env.URLS_JSON))
            /\ hash["total_items"] = HEntry(Len(ParsedUrls(env.URLS_JSON)))
      [] Program(s) = "reducer" ->
            hash["final_summary"] = HEntry(Summary(run[s].map_results, run[s].map_errors))
      [] Program(s) = "doc-extractor" /\ TASK_TYPE(s) = "extract" ->
            /\ \A i \in 1..Len(ChunkKeys) : hash[ChunkKeys[i]].present
            /\ hash["extraction_result"] = HEntry(ExtractionResult)
            /\ hash["chunk_count"] = HEntry(Len(ChunkKeys))
            /\ hash["chunks"] = HEntry(ChunkKeys)
      [] Program(s) = "doc-extractor" /\ TASK_TYPE(s) = "prepare" ->
            /\ hash["tasks"] = HEntry(PreparedTasks(run[s].i))
            /\ hash["task_count"] = HEntry(run[s].i)
      [] OTHER -> TRUE

\* the records the reducer has read, once it has read both lists
ReducerRead == run["red"].map_results \o run["red"].map_errors
ReducerHasRead == run["red"].pc \in {"reduce", "write_result", "done"}

\* C30: when a worker's main calls write_result, and so before "completed"
\* is published for its task, every workflow-state mutation of the run is in
\* the store; hence once all N map tasks are "completed" the two lists hold
\* a record of each of the N items, and a reducer that has read the lists
\* has read them all.
MutationsBeforeCompleted ==
    /\ \A s \in Slots : Publishing(s) => MutationsStored(s)
    /\ (MapTasks # {} /\ \A s \in MapTasks : Completed(s)) =>
          /\ Len(lists["map_results"]) + Len(lists["map_errors"]) >= Cardinality(MapTasks)
          /\ \A s \in MapTasks :
                \E name \in ListNames : \E i \in 1..Len(lists[name]) :
                    /\ lists[name][i].task_id = TASK_ID(s)
                    /\ lists[name][i].url = MapItem(s)
          /\ ReducerHasRead =>
                /\ Len(ReducerRead) >= Cardinality(MapTasks)
                /\ \A s \in MapTasks :
                      \E i \in 1..Len(ReducerRead) : ReducerRead[i] = run[s].item

\* both map tasks are "completed", one with a failed item, and the reducer,
\* started after them, has read both records and published "completed"
ReducerReadEveryItem ==
    /\ Cardinality(MapTasks) = MaxUrls
    /\ \A s \in MapTasks : Completed(s) /\ Last(channel[TASK_ID(s)]) = "completed"
    /\ \E s \in MapTasks : FailedItem(s)
    /\ \E s \in MapTasks : ~FailedItem(s)
    /\ Completed("red")
    /\ Len(ReducerRead) >= MaxUrls
    /\ hash["final_summary"].present

====
